---- MODULE Spec2Model ----
(***************************************************************************)
(* A model of the jello_space_pond physics core: the attachment graph and  *)
(* constraint bookkeeping of Simulation (simulation.rs), the HoldTogether  *)
(* constraint (constraint.rs), the pressure, spring and builder code of    *)
(* soft_body.rs, and the crafting grid and recipes of loop_crafting.rs.    *)
(*                                                                         *)
(* Numbers: an f32 is modelled as an exact extended rational <<n, d>> with *)
(* d >= 0: d > 0 is the finite value n/d in lowest terms, <<1,0>> is +inf, *)
(* <<-1,0>> is -inf and <<0,0>> is NaN.  Rounding and the sign of zero are *)
(* not modelled.  Vec<T> is a function on 0..len-1 (the source's indices)  *)
(* and Option<T> is the empty set (None) or a singleton (Some).            *)
(***************************************************************************)
EXTENDS Integers, Sequences, FiniteSets, TLC

VARIABLES
    soft_bodies,        \* Simulation.soft_bodies: body key -> SoftBody
    keys,               \* Simulation.keys: cached list of body keys
    constraints,        \* Simulation.constraints: constraint key -> member handles
    next_body_key,      \* next fresh SoftBodyKey (slot map keys are never reused)
    next_constraint_key,\* next fresh ConstraintKey
    call,               \* observer: the last call and what it returned
    snap,               \* observer: soft_bodies and constraints before that call
    pre_connect,        \* observer: state before a successful connect, kept
                        \*   only across a disconnect that follows it directly
    applied,            \* bounded calls so far (constraint, pressure, spring)
    spring_io,          \* soft_body.rs harness: LinearSpring, its two points, result
    builder,            \* soft_body.rs harness: SoftBodyBuilder under construction
    tick,               \* tick_simulation in progress: its position and locals
    fill,               \* a connection-state propagation in progress: its call stack
    crafting,           \* loop_crafting.rs: the LoopCrafting grid
    crafting_io         \* observer: the last loop_crafting.rs call, its inputs and result

vars == <<soft_bodies, keys, constraints, next_body_key, next_constraint_key,
          call, snap, pre_connect, applied, spring_io, builder, tick, fill,
                   crafting, crafting_io>>

-----------------------------------------------------------------------------
(* Extended rationals *)

Abs(n) == IF n < 0 THEN -n ELSE n

Sign(n) == IF n < 0 THEN -1 ELSE IF n > 0 THEN 1 ELSE 0

RECURSIVE Gcd(_, _)
Gcd(a, b) == IF b = 0 THEN a ELSE Gcd(b, a % b)

Norm(q) ==
    IF q[2] = 0 THEN <<Sign(q[1]), 0>>
    ELSE LET s == IF q[2] < 0 THEN -1 ELSE 1
             g == Gcd(Abs(q[1]), Abs(q[2]))
         IN <<(s * q[1]) \div g, (s * q[2]) \div g>>

R(n) == <<n, 1>>

Frac(n, d) == Norm(<<n, d>>)

NaN == <<0, 0>>

Infinity == <<1, 0>>

IsNaN(a) == a = NaN

IsFinite(a) == a[2] > 0

RAdd(a, b) ==
    IF a[2] = 0 /\ b[2] = 0 THEN (IF a[1] = b[1] THEN a ELSE NaN)
    ELSE LET g == Gcd(a[2], b[2])
         IN Norm(<<a[1] * (b[2] \div g) + b[1] * (a[2] \div g), (a[2] \div g) * b[2]>>)

RNeg(a) == <<-a[1], a[2]>>

RSub(a, b) == RAdd(a, RNeg(b))

RMul(a, b) ==
    LET g1 == Gcd(Abs(a[1]), b[2])
        g2 == Gcd(Abs(b[1]), a[2])
    IN IF g1 = 0 \/ g2 = 0 THEN Norm(<<a[1] * b[1], a[2] * b[2]>>)
       ELSE Norm(<<(a[1] \div g1) * (b[1] \div g2), (a[2] \div g2) * (b[2] \div g1)>>)

RInv(a) == IF a[1] < 0 THEN <<-a[2], -a[1]>> ELSE <<a[2], a[1]>>

RDiv(a, b) == RMul(a, RInv(b))

RLe(a, b) ==
    /\ ~IsNaN(a)
    /\ ~IsNaN(b)
    /\ IF a[2] = 0 /\ b[2] = 0 THEN a[1] <= b[1]
       ELSE a[1] * (b[2] \div Gcd(a[2], b[2])) <= b[1] * (a[2] \div Gcd(a[2], b[2]))

RLt(a, b) == RLe(a, b) /\ a # b

RAbs(a) == <<Abs(a[1]), a[2]>>

\* f32::EPSILON = 2^-23
EPSILON == <<1, 8388608>>

-----------------------------------------------------------------------------
(* Vec2 *)

V(x, y) == [x |-> x, y |-> y]

VI(x, y) == V(R(x), R(y))

ZERO == VI(0, 0)

VAdd(u, v) == V(RAdd(u.x, v.x), RAdd(u.y, v.y))

VSub(u, v) == V(RSub(u.x, v.x), RSub(u.y, v.y))

VScale(u, s) == V(RMul(u.x, s), RMul(u.y, s))

VDivS(u, s) == V(RDiv(u.x, s), RDiv(u.y, s))

VDot(u, v) == RAdd(RMul(u.x, v.x), RMul(u.y, v.y))

\* Vec2::perp: rotation by 90 degrees
VPerp(u) == V(RNeg(u.y), u.x)

DistanceSquared(u, v) == VDot(VSub(u, v), VSub(u, v))

-----------------------------------------------------------------------------
(* Vec and Option *)

Len0(f) == Cardinality(DOMAIN f)

Push0(f, e) == [i \in 0..Len0(f) |-> IF i < Len0(f) THEN f[i] ELSE e]

None == {}

Some(x) == {x}

Unwrap(o) == CHOOSE x \in o : TRUE

Handle(k, i) == [soft_body |-> k, index |-> i]

-----------------------------------------------------------------------------
(* Data *)

MkPoint(x, y, m) ==
    [position |-> VI(x, y), velocity |-> ZERO, impulse |-> ZERO, mass |-> R(m),
     num_connections |-> 0, constraint |-> None]

MkAttatchment(start, length) ==
    [start_point |-> start, length |-> length, connection |-> None]

\* BoundingBox::default
DefaultBoundingBox == [min_corner |-> ZERO, size |-> ZERO]

MkBody(points, aps, state, debris) ==
    [shape |-> points, attatchment_points |-> aps, connection_state |-> state,
     debris_age |-> debris, gas_force |-> R(0), pressure |-> R(0),
     bounding_box |-> DefaultBoundingBox]

\* ConnectionState::is_connected
is_connected(state) == state \in {"Source", "Connected"}

is_debris(body) == body.debris_age # None

-----------------------------------------------------------------------------
(* Connection-state propagation (simulation.rs) *)

\* What a &mut self method leaves behind: whether it panicked, the bodies,
\* and (for clear_connections_from) the Source body it met, if any.
Flood(p, sb, src) == [panic |-> p, soft_bodies |-> sb, source |-> src]

RECURSIVE clear_connections_from(_, _)
RECURSIVE clear_each(_, _, _, _)

clear_connections_from(sb, soft_body_key) ==
    IF soft_body_key \notin DOMAIN sb THEN Flood(TRUE, sb, None)
    ELSE IF is_connected(sb[soft_body_key].connection_state)
    THEN LET sb1 == IF sb[soft_body_key].connection_state = "Connected"
                    THEN [sb EXCEPT ![soft_body_key].connection_state = "Disconnected"]
                    ELSE sb
             source == IF sb1[soft_body_key].connection_state = "Source"
                       THEN Some(soft_body_key) ELSE None
         IN clear_each(sb1, sb1[soft_body_key].attatchment_points, 0, source)
    ELSE Flood(FALSE, sb, None)

clear_each(sb, aps, i, source) ==
    IF i >= Len0(aps) THEN Flood(FALSE, sb, source)
    ELSE IF aps[i].connection = None THEN clear_each(sb, aps, i + 1, source)
    ELSE LET result == clear_connections_from(sb, Unwrap(aps[i].connection).soft_body)
         IN IF result.panic THEN result
            ELSE clear_each(result.soft_bodies, aps, i + 1,
                            IF result.source # None THEN result.source ELSE source)

RECURSIVE connect_attatched_soft_bodies(_, _)
RECURSIVE connect_each(_, _, _)

connect_attatched_soft_bodies(sb, soft_body_key) ==
    IF soft_body_key \notin DOMAIN sb THEN Flood(TRUE, sb, None)
    ELSE IF sb[soft_body_key].connection_state \in {"Disconnected", "Source"}
    THEN LET sb1 == IF sb[soft_body_key].connection_state = "Disconnected"
                    THEN [sb EXCEPT ![soft_body_key].connection_state = "Connected"]
                    ELSE sb
         IN connect_each(sb1, sb1[soft_body_key].attatchment_points, 0)
    ELSE Flood(FALSE, sb, None)

connect_each(sb, aps, i) ==
    IF i >= Len0(aps) THEN Flood(FALSE, sb, None)
    ELSE IF aps[i].connection = None THEN connect_each(sb, aps, i + 1)
    ELSE LET result == connect_attatched_soft_bodies(sb, Unwrap(aps[i].connection).soft_body)
         IN IF result.panic THEN result
            ELSE connect_each(result.soft_bodies, aps, i + 1)

-----------------------------------------------------------------------------
(* Constraints (constraint.rs, simulation.rs) *)

\* PointHandle::get
Resolves(sb, h) == h.soft_body \in DOMAIN sb /\ h.index \in DOMAIN sb[h.soft_body].shape

PointOf(sb, h) == sb[h.soft_body].shape[h.index]

SetSlot(sb, h, slot) == [sb EXCEPT ![h.soft_body].shape[h.index].constraint = slot]

\* Constraint::insert: the loop over the members, returning the members kept,
\* the bodies, and the keys found in the members' slots.
RECURSIVE constraint_insert(_, _, _, _, _, _)
constraint_insert(points, i, key, sb, kept, keys_to_replace) ==
    IF i > Len(points) THEN [points |-> kept, soft_bodies |-> sb, keys_to_replace |-> keys_to_replace]
    ELSE IF ~Resolves(sb, points[i])
    THEN constraint_insert(points, i + 1, key, sb, kept, keys_to_replace)
    ELSE LET slot == PointOf(sb, points[i]).constraint
         IN constraint_insert(points, i + 1, key, SetSlot(sb, points[i], Some(key)),
                              Append(kept, points[i]),
                              IF slot # None THEN Append(keys_to_replace, Unwrap(slot))
                              ELSE keys_to_replace)

RECURSIVE constraint_remove_without_regrouping(_, _, _, _, _, _)
constraint_remove_without_regrouping(points, i, key, replacement, sb, points_regrouped) ==
    IF i > Len(points) THEN [soft_bodies |-> sb, points_regrouped |-> points_regrouped]
    ELSE IF ~Resolves(sb, points[i])
    THEN constraint_remove_without_regrouping(points, i + 1, key, replacement, sb,
                                              points_regrouped)
    ELSE IF PointOf(sb, points[i]).constraint = Some(key)
    THEN constraint_remove_without_regrouping(points, i + 1, key, replacement,
                                              SetSlot(sb, points[i], replacement),
                                              points_regrouped)
    ELSE constraint_remove_without_regrouping(points, i + 1, key, replacement, sb,
                                              points_regrouped)

\* Constraint::remove: returns the bodies and the points regrouped.
RECURSIVE constraint_remove(_, _, _, _, _, _)
constraint_remove(points, i, key, replacement, sb, points_regrouped) ==
    IF i > Len(points) THEN [soft_bodies |-> sb, points_regrouped |-> points_regrouped]
    ELSE IF ~Resolves(sb, points[i])
    THEN constraint_remove(points, i + 1, key, replacement, sb, points_regrouped)
    ELSE IF PointOf(sb, points[i]).constraint = Some(key)
    THEN constraint_remove(points, i + 1, key, replacement,
                           SetSlot(sb, points[i], replacement),
                           IF replacement # None THEN Append(points_regrouped, points[i])
                           ELSE points_regrouped)
    ELSE constraint_remove(points, i + 1, key, replacement, sb, points_regrouped)

Without(f, k) == [x \in DOMAIN f \ {k} |-> f[x]]

With(f, k, v) == [x \in DOMAIN f \cup {k} |-> IF x = k THEN v ELSE f[x]]

\* Simulation::remove_constraint
remove_constraint(sb, cs, key, replacement) ==
    IF key \notin DOMAIN cs THEN [soft_bodies |-> sb, constraints |-> cs]
    ELSE LET removed == constraint_remove(cs[key], 1, key, replacement, sb, <<>>)
             cs1 == Without(cs, key)
         IN [soft_bodies |-> removed.soft_bodies,
             constraints |->
                 IF replacement # None
                 THEN [cs1 EXCEPT ![Unwrap(replacement)] = @ \o removed.points_regrouped]
                 ELSE cs1]

RECURSIVE remove_replaced(_, _, _, _, _)
remove_replaced(sb, cs, keys_to_replace, i, key) ==
    IF i > Len(keys_to_replace) THEN [soft_bodies |-> sb, constraints |-> cs]
    ELSE LET r == remove_constraint(sb, cs, keys_to_replace[i], Some(key))
         IN remove_replaced(r.soft_bodies, r.constraints, keys_to_replace, i + 1, key)

\* Simulation::insert_constraint; `key` is the fresh key the slot map hands out.
insert_constraint(sb, cs, key, points) ==
    LET ins == constraint_insert(points, 1, key, sb, <<>>, <<>>)
    IN remove_replaced(ins.soft_bodies, With(cs, key, ins.points), ins.keys_to_replace, 1, key)

\* Constraint::apply_to_soft_bodies, lines 22-39: the members kept, in order.
\* A handle is dropped when it does not resolve or its point's slot is empty.
hold_retain(points, sb) ==
    SelectSeq(points, LAMBDA h : Resolves(sb, h) /\ PointOf(sb, h).constraint # None)

RECURSIVE hold_total_mass(_, _, _)
hold_total_mass(points, sb, i) ==
    IF i > Len(points) THEN R(0)
    ELSE RAdd(PointOf(sb, points[i]).mass, hold_total_mass(points, sb, i + 1))

RECURSIVE hold_total_momentum(_, _, _)
hold_total_momentum(points, sb, i) ==
    IF i > Len(points) THEN ZERO
    ELSE VAdd(VScale(PointOf(sb, points[i]).velocity, PointOf(sb, points[i]).mass),
              hold_total_momentum(points, sb, i + 1))

RECURSIVE hold_total_mass_moment(_, _, _)
hold_total_mass_moment(points, sb, i) ==
    IF i > Len(points) THEN ZERO
    ELSE VAdd(VScale(PointOf(sb, points[i]).position, PointOf(sb, points[i]).mass),
              hold_total_mass_moment(points, sb, i + 1))

hold_average_unweighted(points, sb) ==
    LET sum_position[i \in 0..Len(points)] ==
            IF i = 0 THEN ZERO ELSE VAdd(sum_position[i - 1], PointOf(sb, points[i]).position)
        sum_velocity[i \in 0..Len(points)] ==
            IF i = 0 THEN ZERO ELSE VAdd(sum_velocity[i - 1], PointOf(sb, points[i]).velocity)
    IN [position |-> VDivS(sum_position[Len(points)], R(Len(points))),
        velocity |-> VDivS(sum_velocity[Len(points)], R(Len(points)))]

\* Constraint::apply_to_soft_bodies, lines 18-42, over the members kept
hold_average(points, sb) ==
    [position |-> VDivS(hold_total_mass_moment(points, sb, 1), hold_total_mass(points, sb, 1)),
     velocity |-> VDivS(hold_total_momentum(points, sb, 1), hold_total_mass(points, sb, 1))]

\* Constraint::apply_to_soft_bodies, lines 44-49
RECURSIVE hold_overwrite(_, _, _, _)
hold_overwrite(points, sb, average, i) ==
    IF i > Len(points) THEN sb
    ELSE hold_overwrite(points,
                        [sb EXCEPT ![points[i].soft_body].shape[points[i].index].position
                                       = average.position,
                                   ![points[i].soft_body].shape[points[i].index].velocity
                                       = average.velocity],
                        average, i + 1)

\* Constraint::apply_to_soft_bodies
apply_to_soft_bodies(points, sb) ==
    LET kept == hold_retain(points, sb)
    IN [points |-> kept,
        soft_bodies |-> hold_overwrite(kept, sb, hold_average(kept, sb), 1)]

is_empty_without_members(points) == Len(points) = 0

\* Constraint::is_empty
is_empty(points) == Len(points) <= 1

-----------------------------------------------------------------------------
(* Attachment points (simulation.rs) *)

\* The two walks along the paired spans: A forward, B backward, both wrapping.
step_forward(point, length) == IF point < length - 1 THEN point + 1 ELSE 0

step_backward(point, length) == IF point > 0 THEN point - 1 ELSE length - 1

RECURSIVE walk_forward(_, _, _)
walk_forward(point, n, length) ==
    IF n = 0 THEN point ELSE walk_forward(step_forward(point, length), n - 1, length)

RECURSIVE walk_backward(_, _, _)
walk_backward(point, n, length) ==
    IF n = 0 THEN point ELSE walk_backward(step_backward(point, length), n - 1, length)

\* start of the backward walk on B
last_point(ap, length) == (ap.start_point + ap.length - 1) % length

point_a_at(sb, handle, i) ==
    LET body == sb[handle.soft_body]
    IN walk_forward(body.attatchment_points[handle.index].start_point, i, Len0(body.shape))

\* B walked forward from its start, as A is.
point_b_forward(sb, handle, i) ==
    LET body == sb[handle.soft_body]
    IN walk_forward(body.attatchment_points[handle.index].start_point, i, Len0(body.shape))

point_b_at(sb, handle, i) ==
    LET body == sb[handle.soft_body]
    IN walk_backward(last_point(body.attatchment_points[handle.index], Len0(body.shape)),
                     i, Len0(body.shape))

AddConnections(sb, h, delta) ==
    [sb EXCEPT ![h.soft_body].shape[h.index].num_connections = @ + delta]

HasAttatchment(sb, handle) ==
    /\ handle.soft_body \in DOMAIN sb
    /\ handle.index \in DOMAIN sb[handle.soft_body].attatchment_points

AttatchmentOf(sb, handle) == sb[handle.soft_body].attatchment_points[handle.index]

\* Result of a &mut self call on the simulation.
Outcome(res, sb, cs, nck) ==
    [result |-> res, soft_bodies |-> sb, constraints |-> cs, next_constraint_key |-> nck]

\* connect_attatchment_points, lines 1065-1069: the propagation that runs
\* before any check.
connect_propagate(sb, handle_a, handle_b) ==
    IF handle_a.soft_body \notin DOMAIN sb THEN Flood(TRUE, sb, None)
    ELSE IF is_connected(sb[handle_a.soft_body].connection_state)
    THEN connect_attatched_soft_bodies(sb, handle_b.soft_body)
    ELSE IF handle_b.soft_body \notin DOMAIN sb THEN Flood(TRUE, sb, None)
    ELSE IF is_connected(sb[handle_b.soft_body].connection_state)
    THEN connect_attatched_soft_bodies(sb, handle_a.soft_body)
    ELSE Flood(FALSE, sb, None)

connect_rejects_ignoring_length(attatchment_point_a, attatchment_point_b) ==
    \/ attatchment_point_a.connection # None
    \/ attatchment_point_b.connection # None

\* connect_attatchment_points, lines 1081-1086
connect_rejects(attatchment_point_a, attatchment_point_b) ==
    \/ attatchment_point_a.length # attatchment_point_b.length
    \/ attatchment_point_a.connection # None
    \/ attatchment_point_b.connection # None

\* connect_attatchment_points, lines 1098-1126: counters, and the new
\* constraints in the order they are pushed.
RECURSIVE connect_pairs(_, _, _, _, _, _)
connect_pairs(sb, handle_a, handle_b, i, length, new_constraints) ==
    IF i >= length THEN [soft_bodies |-> sb, new_constraints |-> new_constraints]
    ELSE LET pa == Handle(handle_a.soft_body, point_a_at(sb, handle_a, i))
             pb == Handle(handle_b.soft_body, point_b_at(sb, handle_b, i))
         IN connect_pairs(AddConnections(AddConnections(sb, pa, 1), pb, 1),
                          handle_a, handle_b, i + 1, length,
                          Append(new_constraints, <<pa, pb>>))

\* connect_attatchment_points, lines 1128-1130
RECURSIVE insert_all(_, _, _, _, _)
insert_all(sb, cs, nck, new_constraints, i) ==
    IF i > Len(new_constraints) THEN Outcome("Some", sb, cs, nck)
    ELSE LET r == insert_constraint(sb, cs, nck, new_constraints[i])
         IN insert_all(r.soft_bodies, r.constraints, nck + 1, new_constraints, i + 1)

\* connect_attatchment_points, lines 1088-1130, on the bodies with both
\* connection fields set
connect_accepted(sb, cs, nck, handle_a, handle_b) ==
    LET paired == connect_pairs(sb, handle_a, handle_b, 0,
                                AttatchmentOf(sb, handle_a).length, <<>>)
    IN insert_all(paired.soft_bodies, cs, nck, paired.new_constraints, 1)

\* connect_attatchment_points, lines 1071-1130, on what the propagation left
connect_checked(flood, cs, nck, handle_a, handle_b) ==
    IF flood.panic THEN Outcome("panic", flood.soft_bodies, cs, nck)
    ELSE IF handle_a.soft_body = handle_b.soft_body
    THEN Outcome("None", flood.soft_bodies, cs, nck)
    ELSE IF ~HasAttatchment(flood.soft_bodies, handle_a)
            \/ ~HasAttatchment(flood.soft_bodies, handle_b)
    THEN Outcome("None", flood.soft_bodies, cs, nck)
    ELSE IF connect_rejects(AttatchmentOf(flood.soft_bodies, handle_a),
                            AttatchmentOf(flood.soft_bodies, handle_b))
    THEN Outcome("None", flood.soft_bodies, cs, nck)
    ELSE connect_accepted(
             [flood.soft_bodies EXCEPT
                 ![handle_a.soft_body].attatchment_points[handle_a.index].connection
                     = Some(handle_b),
                 ![handle_b.soft_body].attatchment_points[handle_b.index].connection
                     = Some(handle_a)],
             cs, nck, handle_a, handle_b)

\* Simulation::connect_attatchment_points
connect_attatchment_points(sb, cs, nck, handle_a, handle_b) ==
    connect_checked(connect_propagate(sb, handle_a, handle_b), cs, nck, handle_a, handle_b)

\* The loop body leaving the slot of a point whose counter reached zero.
release_keeping_slot(sb, p) == sb

\* disconnect_attatchment_point, lines 1177-1183
release(sb, p) == IF PointOf(sb, p).num_connections = 0 THEN SetSlot(sb, p, None) ELSE sb

\* disconnect_attatchment_point, lines 1174-1197
RECURSIVE disconnect_pairs_skipping_b(_, _, _, _, _)
disconnect_pairs_skipping_b(sb, handle_a, handle_b, i, length) ==
    IF i >= length THEN sb
    ELSE disconnect_pairs_skipping_b(
             release(AddConnections(sb, Handle(handle_a.soft_body,
                                               point_a_at(sb, handle_a, i)), -1),
                     Handle(handle_a.soft_body, point_a_at(sb, handle_a, i))),
             handle_a, handle_b, i + 1, length)

\* disconnect_attatchment_point, lines 1174-1183, for the pair pa, pb
disconnect_pair(sb, pa, pb) ==
    release(release(AddConnections(AddConnections(sb, pa, -1), pb, -1), pa), pb)

\* disconnect_attatchment_point, lines 1174-1197
RECURSIVE disconnect_pairs(_, _, _, _, _)
disconnect_pairs(sb, handle_a, handle_b, i, length) ==
    IF i >= length THEN sb
    ELSE disconnect_pairs(
             disconnect_pair(sb, Handle(handle_a.soft_body, point_a_at(sb, handle_a, i)),
                             Handle(handle_b.soft_body, point_b_at(sb, handle_b, i))),
             handle_a, handle_b, i + 1, length)

\* disconnect_attatchment_point, lines 1199-1203
disconnect_returns(again, cs, nck) ==
    Outcome(IF again.panic THEN "panic" ELSE "Some", again.soft_bodies, cs, nck)

disconnect_repropagate(sb, source, cs, nck) ==
    disconnect_returns(IF source # None
                       THEN connect_attatched_soft_bodies(sb, Unwrap(source))
                       ELSE Flood(FALSE, sb, None),
                       cs, nck)

\* The disconnect clearing the connection field of handle_a only.
disconnect_from_keeping_partner(flood, cs, nck, handle_a, handle_b) ==
    IF ~HasAttatchment(flood.soft_bodies, handle_b)
    THEN Outcome("None", flood.soft_bodies, cs, nck)
    ELSE IF AttatchmentOf(flood.soft_bodies, handle_b).connection # Some(handle_a)
    THEN Outcome("None", flood.soft_bodies, cs, nck)
    ELSE IF handle_a.soft_body = handle_b.soft_body
    THEN Outcome("None", flood.soft_bodies, cs, nck)
    ELSE disconnect_repropagate(
             disconnect_pairs(
                 [flood.soft_bodies EXCEPT
                     ![handle_a.soft_body].attatchment_points[handle_a.index].connection
                         = None],
                 handle_a, handle_b, 0, AttatchmentOf(flood.soft_bodies, handle_a).length),
             flood.source, cs, nck)

\* disconnect_attatchment_point, lines 1146-1203, with handle_b the
\* connection of handle_a
disconnect_from(flood, cs, nck, handle_a, handle_b) ==
    IF ~HasAttatchment(flood.soft_bodies, handle_b)
    THEN Outcome("None", flood.soft_bodies, cs, nck)
    ELSE IF AttatchmentOf(flood.soft_bodies, handle_b).connection # Some(handle_a)
    THEN Outcome("None", flood.soft_bodies, cs, nck)
    ELSE IF handle_a.soft_body = handle_b.soft_body
    THEN Outcome("None", flood.soft_bodies, cs, nck)
    ELSE disconnect_repropagate(
             disconnect_pairs(
                 [flood.soft_bodies EXCEPT
                     ![handle_a.soft_body].attatchment_points[handle_a.index].connection
                         = None,
                     ![handle_b.soft_body].attatchment_points[handle_b.index].connection
                         = None],
                 handle_a, handle_b, 0, AttatchmentOf(flood.soft_bodies, handle_a).length),
             flood.source, cs, nck)

\* disconnect_attatchment_point, lines 1139-1203, on what
\* clear_connections_from left
disconnect_checked(flood, cs, nck, handle_a) ==
    IF flood.panic THEN Outcome("panic", flood.soft_bodies, cs, nck)
    ELSE IF ~HasAttatchment(flood.soft_bodies, handle_a)
    THEN Outcome("None", flood.soft_bodies, cs, nck)
    ELSE IF AttatchmentOf(flood.soft_bodies, handle_a).connection = None
    THEN Outcome("None", flood.soft_bodies, cs, nck)
    ELSE disconnect_from(flood, cs, nck, handle_a,
                         Unwrap(AttatchmentOf(flood.soft_bodies, handle_a).connection))

\* Simulation::disconnect_attatchment_point
disconnect_attatchment_point(sb, cs, nck, handle_a) ==
    disconnect_checked(clear_connections_from(sb, handle_a.soft_body), cs, nck, handle_a)

\* are_attatchment_points_within_range, lines 1033-1052
RECURSIVE all_within(_, _, _, _, _, _)
all_within(sb, handle_a, handle_b, i, length, maximum_distance_squared) ==
    IF i >= length THEN "Some(true)"
    ELSE IF RLt(maximum_distance_squared,
                DistanceSquared(
                    sb[handle_a.soft_body].shape[point_a_at(sb, handle_a, i)].position,
                    sb[handle_b.soft_body].shape[point_b_at(sb, handle_b, i)].position))
    THEN "Some(false)"
    ELSE all_within(sb, handle_a, handle_b, i + 1, length, maximum_distance_squared)

are_attatchment_points_within_range(sb, handle_a, handle_b, maximum_distance) ==
    IF ~HasAttatchment(sb, handle_a) \/ ~HasAttatchment(sb, handle_b) THEN "None"
    ELSE IF connect_rejects(AttatchmentOf(sb, handle_a), AttatchmentOf(sb, handle_b))
    THEN "None"
    ELSE IF IsFinite(maximum_distance)
    THEN all_within(sb, handle_a, handle_b, 0, AttatchmentOf(sb, handle_a).length,
                    RMul(maximum_distance, maximum_distance))
    ELSE "Some(true)"

-----------------------------------------------------------------------------
(* Destruction (simulation.rs) *)

RECURSIVE SortedSeq(_)
SortedSeq(S) ==
    IF S = {} THEN <<>>
    ELSE LET m == CHOOSE x \in S : \A y \in S : x <= y
         IN <<m>> \o SortedSeq(S \ {m})

\* Simulation::update_keys; the slot map's iteration order is taken to be
\* ascending key order.
update_keys(sb) ==
    LET sorted == SortedSeq(DOMAIN sb)
    IN [i \in 0..(Len(sorted) - 1) |-> sorted[i + 1]]

\* Vec::swap_remove
swap_remove(ks, i) ==
    [j \in 0..(Len0(ks) - 2) |-> IF j = i THEN ks[Len0(ks) - 1] ELSE ks[j]]

\* Age given to a fresh fragment.
FreshDebrisAge == 0

\* SoftBody::decompose_into_triangles: a fan over the body's points; each
\* triangle is an inert debris body without attachment points.
decompose_into_triangles(body) ==
    LET n == Len0(body.shape)
        fragment(t) ==
            MkBody([j \in 0..2 |->
                        [body.shape[IF j = 0 THEN 0 ELSE t + j]
                            EXCEPT !.num_connections = 0, !.constraint = None,
                                   !.impulse = ZERO]],
                   <<>>, "Disconnected", Some(FreshDebrisAge))
    IN [t \in 0..(n - 3) |-> fragment(t)]

\* destroy_soft_body, lines 869-882: disconnect every attachment point that
\* the clone taken at entry shows as connected; a failed disconnect is unwrapped.
RECURSIVE disconnect_all(_, _, _, _, _, _)
RECURSIVE disconnect_next(_, _, _, _)

disconnect_all(sb, cs, nck, key, aps, index) ==
    IF index >= Len0(aps) THEN Outcome("Some", sb, cs, nck)
    ELSE IF aps[index].connection = None
    THEN disconnect_all(sb, cs, nck, key, aps, index + 1)
    ELSE disconnect_next(disconnect_attatchment_point(sb, cs, nck, Handle(key, index)),
                         key, aps, index)

\* destroy_soft_body, line 880: the unwrap of one disconnect's result
disconnect_next(r, key, aps, index) ==
    IF r.result # "Some"
    THEN Outcome("panic", r.soft_bodies, r.constraints, r.next_constraint_key)
    ELSE disconnect_all(r.soft_bodies, r.constraints, r.next_constraint_key,
                        key, aps, index + 1)

disconnect_none(sb, cs, nck, key, aps, index) == Outcome("Some", sb, cs, nck)

disconnect_before_removal(sb, cs, nck, key, aps, index) ==
    disconnect_all(sb, cs, nck, key, aps, index)

Destroyed(res, sb, cs, nck, ks, nbk) ==
    [result |-> res, soft_bodies |-> sb, constraints |-> cs,
     next_constraint_key |-> nck, keys |-> ks, next_body_key |-> nbk]

RECURSIVE insert_fragments(_, _, _, _, _, _)
insert_fragments(sb, ks, nbk, triangles, t, push_keys) ==
    IF t >= Len0(triangles) THEN [soft_bodies |-> sb, keys |-> ks, next_body_key |-> nbk]
    ELSE insert_fragments(With(sb, nbk, triangles[t]),
                          IF push_keys THEN Push0(ks, nbk) ELSE ks,
                          nbk + 1, triangles, t + 1, push_keys)

\* destroy_soft_body, lines 896-898
destroy_returns(f, d, key_index) ==
    Destroyed("Some", f.soft_bodies, d.constraints, d.next_constraint_key,
              IF key_index = None THEN update_keys(f.soft_bodies) ELSE f.keys,
              f.next_body_key)

\* destroy_soft_body, lines 884-898, on what the disconnects left
destroy_disconnected(d, ks, nbk, key, key_index) ==
    IF d.result = "panic"
    THEN Destroyed("panic", d.soft_bodies, d.constraints, d.next_constraint_key, ks, nbk)
    ELSE IF key_index # None /\ Unwrap(key_index) >= Len0(ks)
    THEN Destroyed("panic", Without(d.soft_bodies, key), d.constraints,
                   d.next_constraint_key, ks, nbk)
    ELSE destroy_returns(
             insert_fragments(Without(d.soft_bodies, key),
                              IF key_index # None THEN swap_remove(ks, Unwrap(key_index))
                              ELSE ks,
                              nbk, decompose_into_triangles(d.soft_bodies[key]), 0,
                              key_index # None),
             d, key_index)

\* destroy_soft_body; key_index is None or Some(i)
destroy_soft_body(sb, cs, nck, ks, nbk, key, key_index) ==
    IF key \notin DOMAIN sb THEN Destroyed("panic", sb, cs, nck, ks, nbk)
    ELSE destroy_disconnected(
             disconnect_before_removal(sb, cs, nck, key, sb[key].attatchment_points, 0),
             ks, nbk, key, key_index)

-----------------------------------------------------------------------------
(* The simulation under arbitrary calls of its public methods *)

\* Constraint keys handed out in one behaviour.
MaxConstraintKeys == 3

Square == [i \in 0..3 |-> CASE i = 0 -> MkPoint(0, 0, 1) [] i = 1 -> MkPoint(1, 0, 1)
                            [] i = 2 -> MkPoint(1, 1, 1) [] OTHER -> MkPoint(0, 1, 1)]

TriangleAt(x, y) == [i \in 0..2 |-> CASE i = 0 -> MkPoint(x, y, 1)
                                      [] i = 1 -> MkPoint(x + 1, y, 1)
                                      [] OTHER -> MkPoint(x, y + 1, 1)]

Attatchments(a0, a1) == [i \in 0..1 |-> IF i = 0 THEN a0 ELSE a1]

\* Simulation::new followed by the scenario's inserts and update_keys: a
\* Source square and a triangle, each with a two-point span and a one-point
\* span that share a point; the triangle's long span wraps around the end
\* of its shape and its point 0 coincides with the square's point 1.
InitialBodies ==
    [k \in 1..2 |->
        CASE k = 1 -> MkBody(Square,
                             Attatchments(MkAttatchment(0, 2), MkAttatchment(1, 1)),
                             "Source", None)
          [] OTHER -> MkBody(TriangleAt(1, 0),
                             Attatchments(MkAttatchment(2, 2), MkAttatchment(0, 1)),
                             "Disconnected", None)]

\* LoopCrafting::SIZE
WIDTH == 5

HEIGHT == 5

\* The indices of LoopCrafting.points.
Cells == (0..(WIDTH - 1)) \X (0..(HEIGHT - 1))

\* LoopCrafting::clear on any grid, and LoopCrafting::default(): no point,
\* no start, no end, no recipe.
Cleared ==
    [points |-> [cell \in Cells |-> None], start |-> None, end |-> None, recipe |-> None]

\* What the last call on the LoopCrafting was given and returned.
CraftingCall(op, index, before, result) ==
    [op |-> op, index |-> index, before |-> before, result |-> result]

NoCraftingCall == CraftingCall("none", <<0, 0>>, Cleared, "Some")

Idle == <<>>

\* struct InputState, the fields update_grabbing reads
InputState(selected, target, grabbing, clicking) ==
    [selected_attatchment_point |-> selected, target_attatchment_point |-> target,
     grabbing |-> grabbing, clicking |-> clicking]

\* No tick is in progress and none has run.
NoTick ==
    [pc |-> "idle", unstable_soft_bodies |-> <<>>, log |-> <<>>, keys_were_live |-> TRUE,
     applied_constraints |-> <<>>, input_state |-> InputState(None, None, FALSE, FALSE)]

NoCall == [op |-> "none", handles |-> <<>>, key |-> 0, result |-> "Some"]

Snapshot(sb, cs) == [soft_bodies |-> sb, constraints |-> cs]

NoPreConnect ==
    [valid |-> FALSE, handles |-> <<>>, soft_bodies |-> <<>>, constraints |-> <<>>,
     created |-> {}]

Init ==
    /\ soft_bodies = InitialBodies
    /\ keys = update_keys(InitialBodies)
    /\ constraints = <<>>
    /\ next_body_key = 3
    /\ next_constraint_key = 1
    /\ call = NoCall
    /\ snap = Snapshot(InitialBodies, <<>>)
    /\ pre_connect = NoPreConnect
    /\ applied = 0
    /\ spring_io = Idle
    /\ builder = Idle
    /\ tick = NoTick
    /\ fill = Idle
    /\ crafting = Cleared
    /\ crafting_io = NoCraftingCall

harness == <<applied, spring_io, builder, tick, fill, crafting, crafting_io>>

\* No call is in progress: the caller has taken the last result (a panic
\* ends the program, so nothing follows it).
Running == call = NoCall

\* Handles a caller may pass: every attachment point of every live body, one
\* index past the end of each list, and keys that name no body (removed, or
\* never issued).
HandleInputs ==
    {Handle(k, i) : k \in DOMAIN soft_bodies, i \in 0..1}
        \cup {Handle(k, Len0(soft_bodies[k].attatchment_points)) : k \in DOMAIN soft_bodies}
        \cup {Handle(k, 0) : k \in (1..next_body_key) \ DOMAIN soft_bodies}

\* MAXIMUM_ATTATCHMENT_DISTANCE = 0.5, and the infinite distance that skips
\* the range test.
DistanceInputs == {Frac(1, 2), Infinity}

\* The state a connect call leaves, and what the observers record of it.
ConnectReturns(out, handle_a, handle_b) ==
    /\ out.next_constraint_key <= MaxConstraintKeys + 1
    /\ soft_bodies' = out.soft_bodies
    /\ constraints' = out.constraints
    /\ next_constraint_key' = out.next_constraint_key
    /\ call' = [op |-> "connect", handles |-> <<handle_a, handle_b>>, key |-> 0,
                result |-> out.result]
    /\ snap' = Snapshot(soft_bodies, constraints)
    /\ pre_connect' =
          IF out.result = "Some"
          THEN [valid |-> TRUE, handles |-> <<handle_a, handle_b>>,
                soft_bodies |-> soft_bodies, constraints |-> constraints,
                created |-> next_constraint_key..(out.next_constraint_key - 1)]
          ELSE NoPreConnect
    /\ UNCHANGED <<keys, next_body_key, harness>>

ConnectAttatchmentPoints ==
    \E handle_a \in HandleInputs, handle_b \in HandleInputs :
        /\ Running
        /\ ConnectReturns(connect_attatchment_points(soft_bodies, constraints,
                                                     next_constraint_key, handle_a, handle_b),
                          handle_a, handle_b)

DisconnectReturns(out, handle_a) ==
    /\ soft_bodies' = out.soft_bodies
    /\ constraints' = out.constraints
    /\ call' = [op |-> "disconnect", handles |-> <<handle_a>>, key |-> 0,
                result |-> out.result]
    /\ snap' = Snapshot(soft_bodies, constraints)
    /\ pre_connect' = pre_connect
    /\ UNCHANGED <<keys, next_body_key, next_constraint_key, harness>>

DisconnectAttatchmentPoint ==
    \E handle_a \in HandleInputs :
        /\ Running
        /\ DisconnectReturns(disconnect_attatchment_point(soft_bodies, constraints,
                                                          next_constraint_key, handle_a),
                             handle_a)

AreAttatchmentPointsWithinRange ==
    \E handle_a \in HandleInputs, handle_b \in HandleInputs,
       maximum_distance \in DistanceInputs :
        /\ Running
        /\ call' = [op |-> "within_range", handles |-> <<handle_a, handle_b>>, key |-> 0,
                    result |-> are_attatchment_points_within_range(
                                   soft_bodies, handle_a, handle_b, maximum_distance)]
        /\ snap' = Snapshot(soft_bodies, constraints)
        /\ pre_connect' = NoPreConnect
        /\ UNCHANGED <<soft_bodies, keys, constraints, next_body_key,
                       next_constraint_key, harness>>

\* destroy_soft_body as tick_simulation and other callers use it: on a live
\* body that is not debris, with its index in the key list or with None.
DestroyReturns(out, key) ==
    /\ soft_bodies' = out.soft_bodies
    /\ constraints' = out.constraints
    /\ keys' = out.keys
    /\ next_body_key' = out.next_body_key
    /\ call' = [op |-> "destroy", handles |-> <<>>, key |-> key, result |-> out.result]
    /\ snap' = Snapshot(soft_bodies, constraints)
    /\ pre_connect' = NoPreConnect
    /\ UNCHANGED <<next_constraint_key, harness>>

DestroySoftBody ==
    \E i \in DOMAIN keys, with_index \in BOOLEAN :
        /\ Running
        /\ keys[i] \in DOMAIN soft_bodies
        /\ ~is_debris(soft_bodies[keys[i]])
        /\ DestroyReturns(destroy_soft_body(soft_bodies, constraints, next_constraint_key,
                                            keys, next_body_key, keys[i],
                                            IF with_index THEN Some(i) ELSE None),
                          keys[i])

\* The call returns to its caller; the observers are reset.  The state
\* before a successful connect stays on record until the next call returns.
Return ==
    /\ call # NoCall
    /\ call.result \notin {"panic", "running"}
    /\ call' = NoCall
    /\ snap' = Snapshot(soft_bodies, constraints)
    /\ pre_connect' = IF call.op = "connect" THEN pre_connect ELSE NoPreConnect
    /\ UNCHANGED <<soft_bodies, keys, constraints, next_body_key, next_constraint_key,
                   harness>>

Next ==
    \/ Return
    \/ ConnectAttatchmentPoints
    \/ DisconnectAttatchmentPoint
    \/ AreAttatchmentPointsWithinRange
    \/ DestroySoftBody

Spec == Init /\ [][Next]_vars

-----------------------------------------------------------------------------
(* Claims about the attachment protocol, checked under Spec *)

\* What the claims call the attachment state of the bodies.
AttatchmentState(sb) ==
    [k \in DOMAIN sb |->
        [connection |-> [i \in DOMAIN sb[k].attatchment_points |->
                            sb[k].attatchment_points[i].connection],
         num_connections |-> [p \in DOMAIN sb[k].shape |-> sb[k].shape[p].num_connections],
         constraint |-> [p \in DOMAIN sb[k].shape |-> sb[k].shape[p].constraint]]]

Counters(sb) ==
    [k \in DOMAIN sb |-> [p \in DOMAIN sb[k].shape |-> sb[k].shape[p].num_connections]]

\* The points of an attachment span, with start and wrap-around.
SpanPoints(sb, handle) ==
    {point_a_at(sb, handle, i) : i \in 0..(AttatchmentOf(sb, handle).length - 1)}

BothAttatchments(sb, handles) ==
    \A n \in DOMAIN handles : HasAttatchment(sb, handles[n])

\* C1: connect_attachment_points on two attachment points whose spans differ
\* in length returns None, and the connection fields, the points' connection
\* counters and constraint slots, and the constraint collection are as before.
C1_LengthMismatchRejected ==
    (/\ call.op = "connect"
     /\ BothAttatchments(snap.soft_bodies, call.handles)
     /\ AttatchmentOf(snap.soft_bodies, call.handles[1]).length
            # AttatchmentOf(snap.soft_bodies, call.handles[2]).length)
    => /\ call.result = "None"
       /\ AttatchmentState(soft_bodies) = AttatchmentState(snap.soft_bodies)
       /\ constraints = snap.constraints

\* A mismatched connect between two bodies was rejected after the
\* propagation had already run.
C1_Witness ==
    /\ call.op = "connect"
    /\ call.result = "None"
    /\ BothAttatchments(snap.soft_bodies, call.handles)
    /\ call.handles[1].soft_body # call.handles[2].soft_body
    /\ AttatchmentOf(snap.soft_bodies, call.handles[1]).length
           # AttatchmentOf(snap.soft_bodies, call.handles[2]).length
    /\ AttatchmentOf(snap.soft_bodies, call.handles[1]).connection = None
    /\ AttatchmentOf(snap.soft_bodies, call.handles[2]).connection = None

\* A disconnect of one of the two attachment points that the call just
\* before it connected.
DisconnectRightAfterConnect ==
    /\ call.op = "disconnect"
    /\ call.result = "Some"
    /\ pre_connect.valid
    /\ call.handles[1] \in {pre_connect.handles[1], pre_connect.handles[2]}

SpanCountersRestored ==
    \A n \in 1..2 :
        \A p \in SpanPoints(pre_connect.soft_bodies, pre_connect.handles[n]) :
            soft_bodies[pre_connect.handles[n].soft_body].shape[p].num_connections
                = pre_connect.soft_bodies[pre_connect.handles[n].soft_body]
                      .shape[p].num_connections

\* C2 as stated: connect then immediately disconnect restores every span
\* point's connection counter and removes from the constraint collection all
\* constraints the connect call created.
C2_ConnectDisconnectRemovesConstraints ==
    DisconnectRightAfterConnect
    => /\ SpanCountersRestored
       /\ pre_connect.created \cap DOMAIN constraints = {}

\* C2 amended: connect then immediately disconnect restores every span
\* point's connection counter and empties the constraint slot of every span
\* point whose counter is back at zero (a point still covered by another
\* connected span keeps its slot), but removes no constraint: the collection
\* is exactly what the connect call left, and constraints created by that
\* call are still in it.
C2_ConnectDisconnectRestoresCounters ==
    DisconnectRightAfterConnect
    => /\ SpanCountersRestored
       /\ \A n \in 1..2 :
            \A p \in SpanPoints(pre_connect.soft_bodies, pre_connect.handles[n]) :
                LET point == soft_bodies[pre_connect.handles[n].soft_body].shape[p]
                IN (point.num_connections = 0) <=> (point.constraint = None)
       /\ constraints = snap.constraints
       /\ pre_connect.created \cap DOMAIN constraints # {}

\* A connect over a span that shares a point with another connected span,
\* undone at once: the shared point keeps a counter of one.
C2_Witness ==
    /\ DisconnectRightAfterConnect
    /\ \E n \in 1..2 :
         \E p \in SpanPoints(pre_connect.soft_bodies, pre_connect.handles[n]) :
            soft_bodies[pre_connect.handles[n].soft_body].shape[p].num_connections = 1
    /\ \E n \in 1..2 :
         \E p \in SpanPoints(pre_connect.soft_bodies, pre_connect.handles[n]) :
            soft_bodies[pre_connect.handles[n].soft_body].shape[p].num_connections = 0

\* The attachment points of surviving body k that were joined to body `key`.
JoinedTo(sb, k, key) ==
    {i \in DOMAIN sb[k].attatchment_points :
        /\ sb[k].attatchment_points[i].connection # None
        /\ Unwrap(sb[k].attatchment_points[i].connection).soft_body = key}

\* C3: destroy_soft_body disconnects every connected attachment point of the
\* body before removing it: afterwards the body is gone, no attachment point
\* refers to it, every surviving attachment point that was joined to it has
\* no connection, and the counters of the surviving span points went down by
\* one per such attachment point.
C3_DestroyDisconnectsFirst ==
    (call.op = "destroy")
    => /\ call.result = "Some"
       /\ call.key \notin DOMAIN soft_bodies
       /\ \A k \in DOMAIN soft_bodies :
            \A i \in DOMAIN soft_bodies[k].attatchment_points :
                LET connection == soft_bodies[k].attatchment_points[i].connection
                IN connection # None => Unwrap(connection).soft_body \in DOMAIN soft_bodies
       /\ \A k \in DOMAIN soft_bodies \cap DOMAIN snap.soft_bodies :
            /\ \A i \in JoinedTo(snap.soft_bodies, k, call.key) :
                 soft_bodies[k].attatchment_points[i].connection = None
            /\ \A p \in DOMAIN soft_bodies[k].shape :
                 soft_bodies[k].shape[p].num_connections
                    = snap.soft_bodies[k].shape[p].num_connections
                        - Cardinality({i \in JoinedTo(snap.soft_bodies, k, call.key) :
                                          p \in SpanPoints(snap.soft_bodies, Handle(k, i))})

\* A body joined to a surviving body by two attachment points was destroyed.
C3_Witness ==
    /\ call.op = "destroy"
    /\ call.result = "Some"
    /\ \E k \in DOMAIN soft_bodies \cap DOMAIN snap.soft_bodies :
         Cardinality(JoinedTo(snap.soft_bodies, k, call.key)) = 2

\* C4: connect_attachment_points and are_attachment_points_within_range,
\* given a handle whose body key is not in the collection or whose index is
\* out of range, return None and never panic.
C4_InvalidHandleGivesNone ==
    (/\ call.op \in {"connect", "within_range"}
     /\ ~BothAttatchments(snap.soft_bodies, call.handles))
    => call.result = "None"

\* The rejections of connect_attachment_points that C5 names.
ConnectRejection ==
    /\ call.op = "connect"
    /\ BothAttatchments(snap.soft_bodies, call.handles)
    /\ \/ call.handles[1].soft_body = call.handles[2].soft_body
       \/ connect_rejects(AttatchmentOf(snap.soft_bodies, call.handles[1]),
                          AttatchmentOf(snap.soft_bodies, call.handles[2]))

\* C5: when connect_attachment_points rejects a request (length mismatch, a
\* span already connected, both handles on one body) nothing of the
\* simulation state changes, the bodies' connection states included.
C5_RejectedConnectChangesNothing ==
    ConnectRejection
    => /\ call.result = "None"
       /\ soft_bodies = snap.soft_bodies
       /\ constraints = snap.constraints

\* The failures of disconnect_attachment_point that C6 names.
DisconnectFailure ==
    /\ call.op = "disconnect"
    /\ HasAttatchment(snap.soft_bodies, call.handles[1])
    /\ LET connection == AttatchmentOf(snap.soft_bodies, call.handles[1]).connection
       IN \/ connection = None
          \/ ~HasAttatchment(snap.soft_bodies, Unwrap(connection))
          \/ AttatchmentOf(snap.soft_bodies, Unwrap(connection)).connection
                # Some(call.handles[1])

\* C6: disconnect_attachment_point on an attachment point without a
\* connection, or whose partner does not point back, returns failure and
\* changes nothing: connections, counters, slots and connection states.
C6_FailedDisconnectChangesNothing ==
    DisconnectFailure
    => /\ call.result = "None"
       /\ soft_bodies = snap.soft_bodies
       /\ constraints = snap.constraints

-----------------------------------------------------------------------------
(* HoldTogether constraints applied to bodies (constraint.rs), SpecHold *)

\* Constraint applications in one behaviour.
MaxApplied == 1

WithVelocity(point, vx, vy) == [point EXCEPT !.velocity = VI(vx, vy)]

\* Two triangles with one-point attachment points: on the first points 0
\* and 1, on the second twice point 0, so that one constraint can come to
\* hold three points.  The three differ in position, velocity and mass.
HoldBodies ==
    [k \in 1..2 |->
        CASE k = 1 -> MkBody([TriangleAt(0, 0) EXCEPT
                                 ![0] = WithVelocity(MkPoint(0, 0, 2), 1, 0),
                                 ![1] = WithVelocity(MkPoint(1, 0, 1), 0, 2)],
                             Attatchments(MkAttatchment(0, 1), MkAttatchment(1, 1)),
                             "Source", None)
          [] OTHER -> MkBody([TriangleAt(3, 4) EXCEPT
                                 ![0] = WithVelocity(MkPoint(3, 4, 3), -1, -1)],
                             Attatchments(MkAttatchment(0, 1), MkAttatchment(0, 1)),
                             "Disconnected", None)]

InitHold ==
    /\ soft_bodies = HoldBodies
    /\ keys = update_keys(HoldBodies)
    /\ constraints = <<>>
    /\ next_body_key = 3
    /\ next_constraint_key = 1
    /\ call = NoCall
    /\ snap = Snapshot(HoldBodies, <<>>)
    /\ pre_connect = NoPreConnect
    /\ applied = 0
    /\ spring_io = Idle
    /\ builder = Idle
    /\ tick = NoTick
    /\ fill = Idle
    /\ crafting = Cleared
    /\ crafting_io = NoCraftingCall

\* tick_simulation, lines 258-260, for one constraint of the collection
ApplyReturns(out, key) ==
    /\ soft_bodies' = out.soft_bodies
    /\ constraints' = [constraints EXCEPT ![key] = out.points]
    /\ call' = [op |-> "apply", handles |-> <<>>, key |-> key, result |-> "Some"]
    /\ snap' = Snapshot(soft_bodies, constraints)
    /\ pre_connect' = NoPreConnect
    /\ UNCHANGED <<keys, next_body_key, next_constraint_key, spring_io, builder, tick, fill,
                   crafting, crafting_io>>

ApplyToSoftBodies ==
    \E key \in DOMAIN constraints :
        /\ Running
        /\ applied < MaxApplied
        /\ applied' = applied + 1
        /\ ApplyReturns(apply_to_soft_bodies(constraints[key], soft_bodies), key)

NextHold ==
    \/ Return
    \/ ConnectAttatchmentPoints
    \/ DisconnectAttatchmentPoint
    \/ ApplyToSoftBodies

SpecHold == InitHold /\ [][NextHold]_vars

(* Claims about HoldTogether, checked under SpecHold *)

Members(points) == {points[i] : i \in DOMAIN points}

\* The sum over the points S names of mass times position or velocity.
RECURSIVE MomentOver(_, _, _)
MomentOver(S, sb, field) ==
    IF S = {} THEN ZERO
    ELSE LET h == CHOOSE h \in S : TRUE
         IN VAdd(VScale(PointOf(sb, h)[field], PointOf(sb, h).mass),
                 MomentOver(S \ {h}, sb, field))

RECURSIVE MassOver(_, _)
MassOver(S, sb) ==
    IF S = {} THEN R(0)
    ELSE LET h == CHOOSE h \in S : TRUE
         IN RAdd(PointOf(sb, h).mass, MassOver(S \ {h}, sb))

MomentumOver(S, sb) == MomentOver(S, sb, "velocity")

\* The mass-weighted average position and velocity of the points S name.
WeightedAverage(S, sb) ==
    [position |-> VDivS(MomentOver(S, sb, "position"), MassOver(S, sb)),
     velocity |-> VDivS(MomentumOver(S, sb), MassOver(S, sb))]

\* After the call every point S names sits at the average that the points
\* of S had before it, and the momentum of S is what it was.
Averaged(S) ==
    /\ \A h \in S :
         /\ PointOf(soft_bodies, h).position = WeightedAverage(S, snap.soft_bodies).position
         /\ PointOf(soft_bodies, h).velocity = WeightedAverage(S, snap.soft_bodies).velocity
    /\ MomentumOver(S, soft_bodies) = MomentumOver(S, snap.soft_bodies)

AppliedToLiveMembers ==
    /\ call.op = "apply"
    /\ \A h \in Members(snap.constraints[call.key]) : Resolves(snap.soft_bodies, h)

\* The members whose point has a constraint key in its slot.
Attached(points, sb) ==
    {h \in Members(points) : Resolves(sb, h) /\ PointOf(sb, h).constraint # None}

\* C7 as stated: after one application of a HoldTogether constraint whose
\* members all resolve to live points, every member point has the
\* mass-weighted average position and velocity of the members, and the
\* members' total momentum is unchanged.
C7_AllMembersAveraged ==
    AppliedToLiveMembers => Averaged(Members(snap.constraints[call.key]))

\* C7 amended: after one application of a HoldTogether constraint whose
\* members all resolve to live points, the members whose point has a
\* non-empty constraint slot all have the mass-weighted average position and
\* velocity of those members, whose total momentum is unchanged; a member
\* whose slot is empty is dropped from the constraint and its point is left
\* as it was.
C7_AttachedMembersAveraged ==
    AppliedToLiveMembers
    => LET before == snap.constraints[call.key]
           attached == Attached(before, snap.soft_bodies)
       IN /\ attached # {} => Averaged(attached)
          /\ Members(constraints[call.key]) = attached
          /\ \A h \in Members(before) \ attached :
                PointOf(soft_bodies, h) = PointOf(snap.soft_bodies, h)

\* A constraint holding three points of unequal mass, all attached, was
\* applied and moved them.
C7_Witness ==
    /\ AppliedToLiveMembers
    /\ Cardinality(Attached(snap.constraints[call.key], snap.soft_bodies)) = 3
    /\ Len(constraints[call.key]) = 3
    /\ soft_bodies # snap.soft_bodies

-----------------------------------------------------------------------------
(* Gas pressure (soft_body.rs), SpecPressure *)

\* SoftBody::area
area(body) ==
    LET n == Len0(body.shape)
        x(i) == body.shape[i].position.x
        y(i) == body.shape[i].position.y
        double_area[i \in 0..(n - 2)] ==
            IF i = 0 THEN R(0)
            ELSE RAdd(double_area[i - 1], RMul(x(i), RSub(y(i + 1), y(i - 1))))
    IN RDiv(RAdd(RAdd(double_area[n - 2],
                      RMul(x(n - 1), RSub(y(0), y(n - 2)))),
                 RMul(x(0), RSub(y(1), y(n - 1)))),
            R(2))

\* SoftBody::add_pressure_impulse, lines 139-150: edges i.. of the loop
RECURSIVE pressure_edges(_, _, _, _)
pressure_edges(shape, pressure, dt, i) ==
    IF i >= Len0(shape) THEN shape
    ELSE LET a == i
             b == IF i < Len0(shape) - 1 THEN i + 1 ELSE 0
             force_direction == VPerp(VSub(shape[a].position, shape[b].position))
             pressure_force == VScale(force_direction, pressure)
             half == VDivS(VScale(pressure_force, dt), R(2))
         IN pressure_edges([shape EXCEPT ![a].impulse = VAdd(shape[a].impulse, half),
                                         ![b].impulse = VAdd(shape[b].impulse, half)],
                           pressure, dt, i + 1)

add_pressure_impulse_unguarded(body, dt) ==
    [body EXCEPT !.pressure = RDiv(body.gas_force, area(body)),
                 !.shape = pressure_edges(body.shape, RDiv(body.gas_force, area(body)), dt, 0)]

\* SoftBody::add_pressure_impulse
add_pressure_impulse(body, dt) ==
    IF RLe(RAbs(body.gas_force), EPSILON)
    THEN [body EXCEPT !.pressure = R(0)]
    ELSE [body EXCEPT !.pressure = RDiv(body.gas_force, area(body)),
                      !.shape = pressure_edges(body.shape,
                                               RDiv(body.gas_force, area(body)), dt, 0)]

\* Shapes of positive, zero and negative area.
PressureShapes ==
    {TriangleAt(0, 0),
     [i \in 0..2 |-> MkPoint(i, i, 1)],
     [i \in 0..2 |-> TriangleAt(0, 0)[2 - i]],
     Square}

\* SoftBodyBuilder::gas_force values: none, the threshold, and beyond it
GasForces == {R(0), EPSILON, Frac(1, 2), R(-1)}

\* Impulse already on point 0 when the pressure is added.
PriorImpulses == {ZERO, VI(1, -2)}

DtInputs == {Frac(1, 120), Frac(1, 60)}

PressureBody(shape, gas_force, impulse) ==
    [MkBody([shape EXCEPT ![0].impulse = impulse], <<>>, "Disconnected", None)
        EXCEPT !.gas_force = gas_force]

InitPressure ==
    \E shape \in PressureShapes, gas_force \in GasForces, impulse \in PriorImpulses :
        LET bodies == [k \in 1..1 |-> PressureBody(shape, gas_force, impulse)]
        IN /\ soft_bodies = bodies
           /\ keys = update_keys(bodies)
           /\ constraints = <<>>
           /\ next_body_key = 2
           /\ next_constraint_key = 1
           /\ call = NoCall
           /\ snap = Snapshot(bodies, <<>>)
           /\ pre_connect = NoPreConnect
           /\ applied = 0
           /\ spring_io = Idle
           /\ builder = Idle
           /\ tick = NoTick
           /\ fill = Idle
           /\ crafting = Cleared
           /\ crafting_io = NoCraftingCall
    /\ tick = NoTick
    /\ fill = Idle
    /\ crafting = Cleared
    /\ crafting_io = NoCraftingCall

\* Pressure additions in one behaviour.
MaxPressureCalls == 2

AddPressureImpulse ==
    \E key \in DOMAIN soft_bodies, dt \in DtInputs :
        /\ Running
        /\ applied < MaxPressureCalls
        /\ applied' = applied + 1
        /\ soft_bodies' = [soft_bodies EXCEPT ![key] = add_pressure_impulse(@, dt)]
        /\ call' = [op |-> "pressure", handles |-> <<>>, key |-> key, result |-> "Some"]
        /\ snap' = Snapshot(soft_bodies, constraints)
        /\ pre_connect' = NoPreConnect
        /\ UNCHANGED <<keys, constraints, next_body_key, next_constraint_key,
                       spring_io, builder, tick, fill, crafting, crafting_io>>

NextPressure ==
    \/ Return
    \/ AddPressureImpulse

SpecPressure == InitPressure /\ [][NextPressure]_vars

Impulses(body) == [i \in DOMAIN body.shape |-> body.shape[i].impulse]

\* C8: add_pressure_impulse on a body whose gas_force is zero sets its
\* pressure to zero and leaves every point's impulse as it was, whatever the
\* area of the body.
C8_NoGasNoPressure ==
    (call.op = "pressure" /\ snap.soft_bodies[call.key].gas_force = R(0))
    => /\ soft_bodies[call.key].pressure = R(0)
       /\ Impulses(soft_bodies[call.key]) = Impulses(snap.soft_bodies[call.key])

\* The call was made on a body without gas whose area is zero, with an
\* impulse already on one of its points.
C8_Witness ==
    /\ call.op = "pressure"
    /\ snap.soft_bodies[call.key].gas_force = R(0)
    /\ area(snap.soft_bodies[call.key]) = R(0)
    /\ Impulses(soft_bodies[call.key])[0] # ZERO

-----------------------------------------------------------------------------
(* Linear springs (soft_body.rs), SpecSpring *)

\* f32::sqrt on the values the scenario produces, all perfect squares
Sqrt(a) ==
    IF IsNaN(a) \/ a[1] < 0 THEN NaN
    ELSE IF a[2] = 0 THEN a
    ELSE <<CHOOSE k \in 0..a[1] : k * k = a[1], CHOOSE k \in 1..a[2] : k * k = a[2]>>

\* Vec2::length
VLength(u) == Sqrt(VDot(u, u))

\* LinearSpring::get_force, lines 622-636, after the early return
spring_force(spring, point_a, point_b) ==
    LET displacement == VSub(point_a.position, point_b.position)
        distance == VLength(displacement)
        normalized_displacement == VDivS(displacement, distance)
        relative_velocity == VSub(point_a.velocity, point_b.velocity)
        normal_velocity == VDot(relative_velocity, normalized_displacement)
        force == RMul(spring.force_constant, RSub(spring.target_distance, distance))
        damping == RMul(RNeg(normal_velocity), spring.damping)
        total_force == RAdd(force, damping)
        clamped == IF \/ (~spring.compression /\ RLt(R(0), total_force))
                      \/ (~spring.tension /\ RLt(total_force, R(0)))
                   THEN R(0) ELSE total_force
    IN VScale(normalized_displacement, clamped)

get_force_unguarded(spring, point_a, point_b) == spring_force(spring, point_a, point_b)

\* LinearSpring::get_force
get_force(spring, point_a, point_b) ==
    IF RLe(VLength(VSub(point_a.position, point_b.position)), EPSILON)
    THEN ZERO
    ELSE spring_force(spring, point_a, point_b)

\* LinearSpring::apply_force
apply_force(spring, point_a, point_b, dt) ==
    LET impulse == get_force(spring, point_a, point_b)
        half == VScale(VDivS(impulse, R(2)), dt)
    IN [force |-> impulse,
        point_a |-> [point_a EXCEPT !.impulse = VAdd(point_a.impulse, half)],
        point_b |-> [point_b EXCEPT !.impulse = VSub(point_b.impulse, half)]]

\* Where the second point may sit: on the first, or 3, 4 or 5 away from it.
SpringPositions == {ZERO, VI(3, 0), VI(0, 4), VI(3, 4)}

SpringInputs ==
    [target_distance : {R(0), R(4)}, force_constant : {R(2)}, damping : {R(0), R(1)},
     compression : BOOLEAN, tension : BOOLEAN]

SpringPoint(position, velocity, impulse) ==
    [MkPoint(0, 0, 1) EXCEPT !.position = position, !.velocity = velocity,
                            !.impulse = impulse]

InitSpring ==
    /\ soft_bodies = <<>>
    /\ keys = <<>>
    /\ constraints = <<>>
    /\ next_body_key = 1
    /\ next_constraint_key = 1
    /\ call = NoCall
    /\ snap = Snapshot(<<>>, <<>>)
    /\ pre_connect = NoPreConnect
    /\ applied = 0
    /\ builder = Idle
    /\ tick = NoTick
    /\ fill = Idle
    /\ crafting = Cleared
    /\ crafting_io = NoCraftingCall
    /\ \E spring \in SpringInputs, position \in SpringPositions,
          velocity \in {ZERO, VI(1, 2)}, impulse \in PriorImpulses :
            spring_io = [spring |-> spring,
                         point_a |-> SpringPoint(ZERO, velocity, impulse),
                         point_b |-> SpringPoint(position, ZERO, ZERO),
                         op |-> "none", force |-> ZERO,
                         before |-> <<SpringPoint(ZERO, velocity, impulse),
                                      SpringPoint(position, ZERO, ZERO)>>]

\* Spring calls in one behaviour.
MaxSpringCalls == 2

LinearSpringGetForce ==
    /\ applied < MaxSpringCalls
    /\ applied' = applied + 1
    /\ spring_io' = [spring_io EXCEPT
                        !.op = "get_force",
                        !.force = get_force(spring_io.spring, spring_io.point_a,
                                            spring_io.point_b),
                        !.before = <<spring_io.point_a, spring_io.point_b>>]
    /\ UNCHANGED <<soft_bodies, keys, constraints, next_body_key, next_constraint_key,
                   call, snap, pre_connect, builder, tick, fill, crafting, crafting_io>>

LinearSpringApplyForce ==
    \E dt \in DtInputs :
        LET out == apply_force(spring_io.spring, spring_io.point_a, spring_io.point_b, dt)
        IN /\ applied < MaxSpringCalls
           /\ applied' = applied + 1
           /\ spring_io' = [spring_io EXCEPT
                               !.op = "apply_force",
                               !.force = out.force,
                               !.point_a = out.point_a,
                               !.point_b = out.point_b,
                               !.before = <<spring_io.point_a, spring_io.point_b>>]
           /\ UNCHANGED <<soft_bodies, keys, constraints, next_body_key,
                          next_constraint_key, call, snap, pre_connect, builder, tick, fill,
                          crafting, crafting_io>>

NextSpring ==
    \/ LinearSpringGetForce
    \/ LinearSpringApplyForce

SpecSpring == InitSpring /\ [][NextSpring]_vars

SpringCalledOnCoLocated ==
    /\ spring_io.op \in {"get_force", "apply_force"}
    /\ spring_io.before[1].position = spring_io.before[2].position

\* C9: LinearSpring.get_force returns the zero vector when the two points
\* are at the same position, and apply_force then adds nothing to the
\* impulse of either point.
C9_CoLocatedNoForce ==
    SpringCalledOnCoLocated
    => /\ spring_io.force = ZERO
       /\ spring_io.point_a.impulse = spring_io.before[1].impulse
       /\ spring_io.point_b.impulse = spring_io.before[2].impulse

\* apply_force ran on co-located points that move against each other, with
\* a spring that pushes and pulls, has a rest length and damps, and with an
\* impulse already on the first point.
C9_Witness ==
    /\ SpringCalledOnCoLocated
    /\ spring_io.op = "apply_force"
    /\ spring_io.before[1].velocity # spring_io.before[2].velocity
    /\ spring_io.before[1].impulse # ZERO
    /\ spring_io.spring.compression
    /\ spring_io.spring.tension
    /\ spring_io.spring.target_distance # R(0)
    /\ spring_io.spring.damping # R(0)

-----------------------------------------------------------------------------
(* SoftBodyBuilder (soft_body.rs), SpecBuilder *)

\* Stands for usize::MAX, the value `0usize - 1` wraps to when overflow
\* checks are off; all that matters of it is that it indexes no point.
usize_MAX == 2147483647

\* usize subtraction: an overflow panics in a build with overflow checks
\* (the debug profile) and wraps without them (the release profile).
usize_sub(a, b, overflow_checks) ==
    IF a >= b THEN [panic |-> FALSE, value |-> a - b]
    ELSE IF overflow_checks THEN [panic |-> TRUE, value |-> 0]
    ELSE [panic |-> FALSE, value |-> usize_MAX - (b - a) + 1]

\* Vec2::lerp
VLerp(u, v, t) == VAdd(u, VScale(VSub(v, u), t))

\* Vec2::distance
VDistance(u, v) == VLength(VSub(u, v))

\* SoftBodyBuilder::fix_last_spring, with last_spring_specified false and
\* spring_scale 1.0 as SoftBodyBuilder::default leaves them
fix_last_spring(shape, point) ==
    IF Len0(shape) = 0 THEN shape
    ELSE [shape EXCEPT ![Len0(shape) - 1].target_distance
                          = RMul(VDistance(shape[Len0(shape) - 1].position, point), R(1))]

\* SoftBodyBuilder::point_inner; base_line's spring has target_distance 1.0
point_inner(shape, point) ==
    Push0(fix_last_spring(shape, point), [position |-> point, target_distance |-> R(1)])

RECURSIVE subdivide(_, _, _, _, _)
subdivide(shape, position, point, i, segments) ==
    IF i >= segments THEN shape
    ELSE subdivide(point_inner(shape, VLerp(position, point, Frac(i, segments))),
                   position, point, i + 1, segments)

\* SoftBodyBuilder::add_subdivisions
add_subdivisions(shape, subdivisions, point) ==
    IF subdivisions > 0 /\ Len0(shape) > 0
    THEN subdivide(shape, shape[Len0(shape) - 1].position, point, 1, subdivisions + 1)
    ELSE shape

\* SoftBodyBuilder::point_ex, with base_point.position zero
point_ex(b, point) ==
    [b EXCEPT !.shape = point_inner(add_subdivisions(b.shape, b.subdivisions, point), point)]

\* SoftBodyBuilder::build, with base_point.spring None (no rest angle to set)
build(b) ==
    IF Len0(b.shape) < 3 THEN [b EXCEPT !.status = "panic"]
    ELSE IF \E id \in DOMAIN b.internal_springs :
                b.internal_springs[id].state = "Incomplete"
    THEN [b EXCEPT !.status = "panic"]
    ELSE [b EXCEPT !.status = "built",
                   !.shape = fix_last_spring(
                                 add_subdivisions(b.shape, b.subdivisions, b.shape[0].position),
                                 b.shape[0].position)]

Unused == [state |-> "Unused", start |-> 0]

\* with_internal_spring_start, lines 918-920
grow_slots(slots, id) ==
    [i \in 0..(IF Len0(slots) > id THEN Len0(slots) - 1 ELSE id) |->
        IF i < Len0(slots) THEN slots[i] ELSE Unused]

\* SoftBodyBuilder::with_internal_spring_start
with_internal_spring_start(b, id) ==
    LET slots == grow_slots(b.internal_springs, id)
        start == usize_sub(Len0(b.shape), 1, b.overflow_checks)
    IN IF slots[id].state # "Unused" \/ start.panic
       THEN [b EXCEPT !.status = "panic", !.internal_springs = slots]
       ELSE [b EXCEPT !.internal_springs =
                         [slots EXCEPT ![id] = [state |-> "Incomplete",
                                                start |-> start.value]]]

\* SoftBodyBuilder::with_internal_spring_end
with_internal_spring_end(b, id) ==
    LET end_index == usize_sub(Len0(b.shape), 1, b.overflow_checks)
    IN IF id \notin DOMAIN b.internal_springs
          \/ b.internal_springs[id].state # "Incomplete"
          \/ end_index.panic
       THEN [b EXCEPT !.status = "panic"]
       ELSE [b EXCEPT !.internal_springs[id] = [state |-> "Complete", start |-> 0],
                      !.body_internal_springs =
                          Append(@, <<b.internal_springs[id].start, end_index.value>>)]

\* SoftBodyBuilder::subdivisions
subdivisions(b, n) == [b EXCEPT !.subdivisions = n]

\* Points declared, slot ids and subdivisions in one behaviour.
MaxPoints == 3

MaxSlotId == 1

MaxSubdivisions == 1

\* Positions whose distances are 0, 3, 4 or 5.
PointInputs == {VI(0, 0), VI(3, 0), VI(3, 4)}

\* SoftBodyBuilder::default().base_angular_spring(None), in a build with or
\* without overflow checks.  declared, opened, joined and points_at_build
\* observe the calls: the points declared, the last point's index when each
\* slot was opened, the same pair for each closed slot, and the shape's
\* length when build was called.
InitBuilder ==
    /\ soft_bodies = <<>>
    /\ keys = <<>>
    /\ constraints = <<>>
    /\ next_body_key = 1
    /\ next_constraint_key = 1
    /\ call = NoCall
    /\ snap = Snapshot(<<>>, <<>>)
    /\ pre_connect = NoPreConnect
    /\ applied = 0
    /\ spring_io = Idle
    /\ tick = NoTick
    /\ fill = Idle
    /\ crafting = Cleared
    /\ crafting_io = NoCraftingCall
    /\ \E overflow_checks \in BOOLEAN :
          builder = [status |-> "building", shape |-> <<>>, internal_springs |-> <<>>,
                     body_internal_springs |-> <<>>, subdivisions |-> 0,
                     overflow_checks |-> overflow_checks,
                     declared |-> 0, opened |-> <<>>, joined |-> <<>>,
                     points_at_build |-> 0]

Building == builder.status = "building"

BuilderFrame ==
    UNCHANGED <<soft_bodies, keys, constraints, next_body_key, next_constraint_key,
                call, snap, pre_connect, applied, spring_io,
                tick, fill, crafting, crafting_io>>

BuilderPoint ==
    \E point \in PointInputs :
        /\ Building
        /\ builder.declared < MaxPoints
        /\ builder' = [point_ex(builder, point) EXCEPT !.declared = @ + 1]
        /\ BuilderFrame

BuilderWithInternalSpringStart ==
    \E id \in 0..MaxSlotId :
        LET out == with_internal_spring_start(builder, id)
        IN /\ Building
           /\ builder' = IF out.status = "panic" THEN out
                         ELSE [out EXCEPT !.opened = (id :> (Len0(builder.shape) - 1)) @@ @]
           /\ BuilderFrame

BuilderWithInternalSpringEnd ==
    \E id \in 0..MaxSlotId :
        LET out == with_internal_spring_end(builder, id)
        IN /\ Building
           /\ builder' = IF out.status = "panic" THEN out
                         ELSE [out EXCEPT !.joined = Append(@, <<builder.opened[id],
                                                                 Len0(builder.shape) - 1>>)]
           /\ BuilderFrame

BuilderSubdivisions ==
    \E n \in 0..MaxSubdivisions :
        /\ Building
        /\ n # builder.subdivisions
        /\ builder' = subdivisions(builder, n)
        /\ BuilderFrame

BuilderBuild ==
    /\ Building
    /\ builder' = [build(builder) EXCEPT !.points_at_build = Len0(builder.shape)]
    /\ BuilderFrame

NextBuilder ==
    \/ BuilderPoint
    \/ BuilderWithInternalSpringStart
    \/ BuilderWithInternalSpringEnd
    \/ BuilderSubdivisions
    \/ BuilderBuild

SpecBuilder == InitBuilder /\ [][NextBuilder]_vars

\* C10: build returns a body only if the shape holds at least 3 points and
\* every internal-spring slot that was opened has been closed (otherwise it
\* aborts), and each internal spring of the returned body joins the point
\* that was last when its slot was opened to the point that was last when
\* the slot was closed.
C10_BuildValidates ==
    (builder.status = "built")
    => /\ builder.points_at_build >= 3
       /\ \A id \in DOMAIN builder.opened :
             builder.internal_springs[id].state = "Complete"
       /\ Len(builder.body_internal_springs) = Len(builder.joined)
       /\ \A k \in DOMAIN builder.body_internal_springs :
             /\ builder.body_internal_springs[k] = builder.joined[k]
             /\ builder.body_internal_springs[k][1] \in DOMAIN builder.shape
             /\ builder.body_internal_springs[k][2] \in DOMAIN builder.shape

-----------------------------------------------------------------------------
(* Geometry used by the tick (soft_body.rs) *)

\* SoftBody::update_bounding_box, lines 158-179: the corners after points 0..i
RECURSIVE box_min(_, _)
box_min(shape, i) ==
    IF i = 0 THEN shape[0].position
    ELSE LET min == box_min(shape, i - 1)
             position == shape[i].position
         IN V(IF RLt(position.x, min.x) THEN position.x ELSE min.x,
              IF RLt(position.y, min.y) THEN position.y ELSE min.y)

RECURSIVE box_max(_, _)
box_max(shape, i) ==
    IF i = 0 THEN shape[0].position
    ELSE LET max == box_max(shape, i - 1)
             position == shape[i].position
         IN V(IF RLt(max.x, position.x) THEN position.x ELSE max.x,
              IF RLt(max.y, position.y) THEN position.y ELSE max.y)

\* SoftBody::update_bounding_box
update_bounding_box(body) ==
    IF Len0(body.shape) = 0 THEN body
    ELSE [body EXCEPT !.bounding_box =
             [min_corner |-> box_min(body.shape, Len0(body.shape) - 1),
              size |-> VSub(box_max(body.shape, Len0(body.shape) - 1),
                            box_min(body.shape, Len0(body.shape) - 1))]]

\* BoundingBox::max_corner
max_corner(box) == VAdd(box.min_corner, box.size)

\* BoundingBox::contains_point
box_contains_point(box, point) ==
    /\ RLt(box.min_corner.x, point.x)
    /\ RLt(box.min_corner.y, point.y)
    /\ RLt(point.x, max_corner(box).x)
    /\ RLt(point.y, max_corner(box).y)

\* BoundingBox::intersects_other
intersects_other(self, other) ==
    /\ RLt(self.min_corner.x, max_corner(other).x)
    /\ RLt(self.min_corner.y, max_corner(other).y)
    /\ RLt(other.min_corner.x, max_corner(self).x)
    /\ RLt(other.min_corner.y, max_corner(self).y)

\* Vec2::perp_dot
VPerpDot(u, v) == RSub(RMul(u.x, v.y), RMul(u.y, v.x))

\* SoftBody::contains_point, lines 262-300: does the ray cast to the right
\* of `point` count the line from point_a to point_b
ray_counts_line(point_a, point_b, point) ==
    IF RLe(point_a.x, point.x) /\ RLe(point_b.x, point.x) THEN FALSE
    ELSE IF \/ RLe(point.y, point_a.y) /\ RLe(point.y, point_b.y)
            \/ RLe(point_a.y, point.y) /\ RLe(point_b.y, point.y)
    THEN FALSE
    ELSE IF /\ RLt(point.x, point_a.x)
            /\ RLt(point.x, point_b.x)
            /\ \/ RLt(point.y, point_a.y)
               \/ RLt(point.y, point_b.y)
            /\ \/ RLe(point_a.y, point.y)
               \/ RLe(point_b.y, point.y)
    THEN TRUE
    ELSE LET left_point == IF RLt(point_a.x, point_b.x) THEN point_a ELSE point_b
             right_point == IF RLt(point_a.x, point_b.x) THEN point_b ELSE point_a
             scaled_sin_angle == VPerpDot(VSub(right_point, left_point),
                                          VSub(point, left_point))
         IN IF RLt(right_point.y, left_point.y)
            THEN RLt(scaled_sin_angle, R(0))
            ELSE RLt(R(0), scaled_sin_angle)

\* SoftBody::contains_point
contains_point(body, point) ==
    /\ box_contains_point(body.bounding_box, point)
    /\ Cardinality({i \in DOMAIN body.shape :
                       ray_counts_line(body.shape[i].position,
                                       body.shape[step_forward(i, Len0(body.shape))].position,
                                       point)}) % 2 = 1

\* SoftBody::check_points_against_other_one_sided, lines 345-351: the points
\* of self that the response at lines 353-389 would move
points_inside(self, other) ==
    {i \in DOMAIN self.shape : contains_point(other, self.shape[i].position)}

-----------------------------------------------------------------------------
(* tick_simulation (simulation.rs), phase by phase *)

\* The integration of a point with its impulse left in place.
point_apply_impulse_and_velocity_keeping_impulse(point, dt) ==
    [point EXCEPT
        !.position = VAdd(VAdd(point.position, VScale(VDivS(point.velocity, R(2)), dt)),
                          VScale(VDivS(VAdd(point.velocity,
                                            VDivS(point.impulse, point.mass)), R(2)), dt)),
        !.velocity = VAdd(point.velocity, VDivS(point.impulse, point.mass))]

\* Point::apply_impulse_and_velocity
point_apply_impulse_and_velocity(point, dt) ==
    [point EXCEPT
        !.position = VAdd(VAdd(point.position, VScale(VDivS(point.velocity, R(2)), dt)),
                          VScale(VDivS(VAdd(point.velocity,
                                            VDivS(point.impulse, point.mass)), R(2)), dt)),
        !.velocity = VAdd(point.velocity, VDivS(point.impulse, point.mass)),
        !.impulse = ZERO]

\* Debris ages by one with every integration; it decays at this age.
DEBRIS_DECAY_TIME == 1

age_debris(body) ==
    IF is_debris(body) THEN [body EXCEPT !.debris_age = Some(Unwrap(@) + 1)] ELSE body

\* SoftBody::apply_impulse_and_velocity for a body whose points have no
\* angular spring and whose lines and chords exert no force: the pressure
\* impulse, the integration of every point, the bounding box.
apply_impulse_and_velocity(body, dt) ==
    update_bounding_box(
        age_debris(
            [add_pressure_impulse(body, dt) EXCEPT
                !.shape = [i \in DOMAIN body.shape |->
                              point_apply_impulse_and_velocity(
                                  add_pressure_impulse(body, dt).shape[i], dt)]]))

\* What one step of the tick did: the phase, and the keys or indices it
\* worked on.
TickEvent(phase, a, b) == [phase |-> phase, a |-> a, b |-> b]

Integrated(p, sb, unstable_soft_bodies, log) ==
    [panic |-> p, soft_bodies |-> sb, unstable_soft_bodies |-> unstable_soft_bodies,
     log |-> log]

\* The integration loop collecting every flagged body, debris or not.
RECURSIVE integrate_from_flagging_debris(_, _, _, _, _, _, _)
integrate_from_flagging_debris(sb, ks, dt, flagged, i, unstable_soft_bodies, log) ==
    IF i >= Len0(ks) THEN Integrated(FALSE, sb, unstable_soft_bodies, log)
    ELSE IF ks[i] \notin DOMAIN sb THEN Integrated(TRUE, sb, unstable_soft_bodies, log)
    ELSE integrate_from_flagging_debris(
             [sb EXCEPT ![ks[i]] = apply_impulse_and_velocity(@, dt)], ks, dt, flagged,
             i + 1,
             IF i \in flagged
             THEN Append(unstable_soft_bodies, <<i, ks[i]>>)
             ELSE unstable_soft_bodies,
             Append(log, TickEvent("integrate", ks[i], i)))

\* tick_simulation, lines 240-255.  `flagged` holds the positions in the key
\* list of the bodies whose integration reports them unstable.
RECURSIVE integrate_from(_, _, _, _, _, _, _)
integrate_from(sb, ks, dt, flagged, i, unstable_soft_bodies, log) ==
    IF i >= Len0(ks) THEN Integrated(FALSE, sb, unstable_soft_bodies, log)
    ELSE IF ks[i] \notin DOMAIN sb THEN Integrated(TRUE, sb, unstable_soft_bodies, log)
    ELSE integrate_from(
             [sb EXCEPT ![ks[i]] = apply_impulse_and_velocity(@, dt)], ks, dt, flagged,
             i + 1,
             IF i \in flagged /\ ~is_debris(sb[ks[i]])
             THEN Append(unstable_soft_bodies, <<i, ks[i]>>)
             ELSE unstable_soft_bodies,
             Append(log, TickEvent("integrate", ks[i], i)))

Constrained(sb, cs, empty_constraints, log) ==
    [soft_bodies |-> sb, constraints |-> cs, empty_constraints |-> empty_constraints,
     log |-> log]

\* tick_simulation, lines 259-265, over the constraint keys in slot order
RECURSIVE apply_constraints(_, _, _, _, _, _)
apply_constraints(sb, cs, order, n, empty_constraints, log) ==
    IF n > Len(order) THEN Constrained(sb, cs, empty_constraints, log)
    ELSE apply_constraints(
             apply_to_soft_bodies(cs[order[n]], sb).soft_bodies,
             [cs EXCEPT ![order[n]] = apply_to_soft_bodies(cs[order[n]], sb).points],
             order, n + 1,
             IF is_empty(apply_to_soft_bodies(cs[order[n]], sb).points)
             THEN Append(empty_constraints, order[n])
             ELSE empty_constraints,
             Append(log, TickEvent("apply", order[n], 0)))

\* tick_simulation, lines 267-269
RECURSIVE remove_empty_constraints(_, _, _, _, _)
remove_empty_constraints(sb, cs, empty_constraints, n, log) ==
    IF n > Len(empty_constraints) THEN Constrained(sb, cs, empty_constraints, log)
    ELSE remove_empty_constraints(
             remove_constraint(sb, cs, empty_constraints[n], None).soft_bodies,
             remove_constraint(sb, cs, empty_constraints[n], None).constraints,
             empty_constraints, n + 1,
             Append(log, TickEvent("remove", empty_constraints[n], 0)))

Collided(p, log) == [panic |-> p, log |-> log]

\* Only the first body checked against the second.
collide_pair_one_sided(sb, first_key, second_key, log) ==
    log \o <<TickEvent("pair", first_key, second_key)>>
        \o (IF intersects_other(sb[first_key].bounding_box, sb[second_key].bounding_box)
            THEN <<TickEvent("check", first_key, second_key)>>
            ELSE <<>>)

\* tick_simulation, lines 278-281, for the pair that get_disjoint_mut gave:
\* the pair examined, each one-sided check made, and each check that found
\* points to push out.
collide_pair(sb, first_key, second_key, log) ==
    log \o <<TickEvent("pair", first_key, second_key)>>
        \o (IF intersects_other(sb[first_key].bounding_box, sb[second_key].bounding_box)
            THEN <<TickEvent("check", first_key, second_key)>>
                     \o (IF points_inside(sb[first_key], sb[second_key]) # {}
                         THEN <<TickEvent("response", first_key, second_key)>> ELSE <<>>)
                     \o <<TickEvent("check", second_key, first_key)>>
                     \o (IF points_inside(sb[second_key], sb[first_key]) # {}
                         THEN <<TickEvent("response", second_key, first_key)>> ELSE <<>>)
            ELSE <<>>)

\* tick_simulation, lines 271-283: first_key at i from 1 on, second_key at
\* j below i; the unwrap fails when the two keys are equal or one is not live.
RECURSIVE collide_pairs(_, _, _, _, _)
collide_pairs(sb, ks, i, j, log) ==
    IF i >= Len0(ks) THEN Collided(FALSE, log)
    ELSE IF j >= i THEN collide_pairs(sb, ks, i + 1, 0, log)
    ELSE IF ks[i] = ks[j] \/ ks[i] \notin DOMAIN sb \/ ks[j] \notin DOMAIN sb
    THEN Collided(TRUE, log)
    ELSE collide_pairs(sb, ks, i, j + 1, collide_pair(sb, ks[i], ks[j], log))

Ticked(d, log) == [world |-> d, log |-> log]

\* tick_simulation, lines 285-287
RECURSIVE destroy_unstable(_, _, _, _)
destroy_unstable(d, unstable_soft_bodies, n, log) ==
    IF d.result = "panic" \/ n > Len(unstable_soft_bodies) THEN Ticked(d, log)
    ELSE destroy_unstable(
             destroy_soft_body(d.soft_bodies, d.constraints, d.next_constraint_key, d.keys,
                               d.next_body_key, unstable_soft_bodies[n][2],
                               Some(unstable_soft_bodies[n][1])),
             unstable_soft_bodies, n + 1,
             Append(log, TickEvent("destroy", unstable_soft_bodies[n][2],
                                   unstable_soft_bodies[n][1])))

\* Twice the signed area of the triangle a, b, c.
Orient(a, b, c) == VPerpDot(VSub(b, a), VSub(c, a))

\* The product of p and q is negative.
OppositeSigns(p, q) ==
    \/ RLt(p, R(0)) /\ RLt(R(0), q)
    \/ RLt(q, R(0)) /\ RLt(R(0), p)

\* Two open segments cross.
segments_cross(a, b, c, d) ==
    /\ OppositeSigns(Orient(a, b, c), Orient(a, b, d))
    /\ OppositeSigns(Orient(c, d, a), Orient(c, d, b))

\* SoftBody::is_self_intersecting: some pair of perimeter edges that are
\* not neighbours cross.
is_self_intersecting(body) ==
    \E i \in DOMAIN body.shape, j \in DOMAIN body.shape :
        /\ i + 1 < j
        /\ ~(i = 0 /\ j = Len0(body.shape) - 1)
        /\ segments_cross(body.shape[i].position,
                          body.shape[step_forward(i, Len0(body.shape))].position,
                          body.shape[j].position,
                          body.shape[step_forward(j, Len0(body.shape))].position)

\* tick_simulation, lines 296-302: debris that is removed outright
debris_is_removed(body) ==
    \/ Unwrap(body.debris_age) >= DEBRIS_DECAY_TIME
    \/ RLt(area(body), R(0))

\* tick_simulation, lines 289-314
RECURSIVE cleanup_from(_, _, _)
cleanup_from(d, i, log) ==
    IF d.result = "panic" \/ i >= Len0(d.keys) THEN Ticked(d, log)
    ELSE IF d.keys[i] \notin DOMAIN d.soft_bodies
    THEN Ticked([d EXCEPT !.result = "panic"], log)
    ELSE IF is_debris(d.soft_bodies[d.keys[i]])
    THEN IF debris_is_removed(d.soft_bodies[d.keys[i]])
         THEN cleanup_from([d EXCEPT !.soft_bodies = Without(@, d.keys[i]),
                                     !.keys = swap_remove(@, i)],
                           i, Append(log, TickEvent("decay", d.keys[i], i)))
         ELSE cleanup_from(d, i + 1, Append(log, TickEvent("refresh", d.keys[i], i)))
    ELSE IF is_self_intersecting(d.soft_bodies[d.keys[i]])
    THEN cleanup_from(destroy_soft_body(d.soft_bodies, d.constraints,
                                        d.next_constraint_key, d.keys, d.next_body_key,
                                        d.keys[i], Some(i)),
                      i, Append(log, TickEvent("shatter", d.keys[i], i)))
    ELSE cleanup_from(d, i + 1, Append(log, TickEvent("refresh", d.keys[i], i)))

\* Option::unwrap on the result of a call
unwrap_outcome(out) == IF out.result = "Some" THEN out ELSE [out EXCEPT !.result = "panic"]

\* update_grabbing, lines 696-709, for a selected attachment point with the
\* grab held and the click made; `selected` is None or Some(handle).
update_grabbing(sb, cs, nck, selected) ==
    IF selected = None THEN Outcome("Some", sb, cs, nck)
    ELSE IF Unwrap(selected).soft_body \notin DOMAIN sb THEN Outcome("Some", sb, cs, nck)
    ELSE IF Unwrap(selected).index \notin DOMAIN sb[Unwrap(selected).soft_body].attatchment_points
    THEN Outcome("panic", sb, cs, nck)
    ELSE IF AttatchmentOf(sb, Unwrap(selected)).connection = None
    THEN Outcome("Some", sb, cs, nck)
    ELSE unwrap_outcome(disconnect_attatchment_point(sb, cs, nck, Unwrap(selected)))

-----------------------------------------------------------------------------
(* The simulation under ticks and attachment calls, SpecTick *)

\* Ticks in one behaviour.
MaxTicks == 2

\* main.rs, lines 42 and 58: dt = 1 / ticks_per_second
TickDt == Frac(1, 120)

\* The order of the phases in tick_simulation.
\* The collision phase run before the constraint phase.
next_phase_collide_first(pc) ==
    CASE pc = "grab" -> "integrate"
      [] pc = "integrate" -> "collide"
      [] pc = "collide" -> "constraints"
      [] pc = "constraints" -> "destroy_unstable"
      [] pc = "destroy_unstable" -> "cleanup"
      [] OTHER -> "done"

next_phase(pc) ==
    CASE pc = "grab" -> "integrate"
      [] pc = "integrate" -> "constraints"
      [] pc = "constraints" -> "collide"
      [] pc = "collide" -> "destroy_unstable"
      [] pc = "destroy_unstable" -> "cleanup"
      [] OTHER -> "done"

\* A Source square and a triangle to its right that share the edge x = 1.
\* The two-point spans pair coinciding points (square 1 with triangle 0,
\* square 2 with triangle 2); the one-point spans pair square 1 with
\* triangle 2, so that the two connections overlap on both bodies.
TickBodies ==
    [k \in 1..2 |->
        CASE k = 1 -> MkBody(Square,
                             Attatchments(MkAttatchment(1, 2), MkAttatchment(1, 1)),
                             "Source", None)
          [] OTHER -> MkBody(TriangleAt(1, 0),
                             Attatchments(MkAttatchment(2, 2), MkAttatchment(2, 1)),
                             "Disconnected", None)]

InitTick ==
    /\ soft_bodies = TickBodies
    /\ keys = update_keys(TickBodies)
    /\ constraints = <<>>
    /\ next_body_key = 3
    /\ next_constraint_key = 1
    /\ call = NoCall
    /\ snap = Snapshot(TickBodies, <<>>)
    /\ pre_connect = NoPreConnect
    /\ applied = 0
    /\ spring_io = Idle
    /\ builder = Idle
    /\ tick = NoTick
    /\ fill = Idle
    /\ crafting = Cleared
    /\ crafting_io = NoCraftingCall

\* The key list holds every live body's key once and nothing else.
KeysAreLiveBodies(ks, sb) ==
    /\ {ks[i] : i \in DOMAIN ks} = DOMAIN sb
    /\ Len0(ks) = Cardinality(DOMAIN sb)

\* What the player holds when the tick starts: nothing, or a connected
\* attachment point, grabbed and clicked.
GrabInputs ==
    {None} \cup {Some(Handle(k, i)) : k \in DOMAIN soft_bodies, i \in 0..1}

\* Positions in the key list whose body the integration can report unstable:
\* any body, debris included.
UnstableInputs ==
    SUBSET {i \in DOMAIN keys : keys[i] \in DOMAIN soft_bodies}

InTick(pc) == call.op = "tick" /\ call.result = "running" /\ tick.pc = pc

TickCall(panic, pc) ==
    [op |-> "tick", handles |-> <<>>, key |-> 0,
     result |-> IF panic THEN "panic" ELSE IF pc = "done" THEN "Some" ELSE "running"]

GrabReturns(out, input_state) ==
    /\ soft_bodies' = out.soft_bodies
    /\ constraints' = out.constraints
    /\ call' = TickCall(out.result = "panic", next_phase("grab"))
    /\ tick' = [pc |-> next_phase("grab"), unstable_soft_bodies |-> <<>>,
                log |-> <<TickEvent("grab", 0, 0)>>,
                keys_were_live |-> KeysAreLiveBodies(keys, soft_bodies),
                applied_constraints |-> <<>>, input_state |-> input_state]
    /\ snap' = Snapshot(soft_bodies, constraints)
    /\ pre_connect' = NoPreConnect
    /\ UNCHANGED <<keys, next_body_key, next_constraint_key, spring_io, builder, fill,
                   crafting, crafting_io>>

\* tick_simulation, line 236
TickGrab ==
    \E selected \in GrabInputs :
        /\ Running
        /\ applied < MaxTicks
        /\ applied' = applied + 1
        /\ GrabReturns(update_grabbing(soft_bodies, constraints, next_constraint_key,
                                       selected),
                       InputState(selected, None, TRUE, TRUE))

IntegrateReturns(out) ==
    /\ soft_bodies' = out.soft_bodies
    /\ call' = TickCall(out.panic, next_phase("integrate"))
    /\ tick' = [tick EXCEPT !.pc = next_phase("integrate"),
                            !.unstable_soft_bodies = out.unstable_soft_bodies,
                            !.log = out.log]
    /\ UNCHANGED <<keys, constraints, next_body_key, next_constraint_key, snap,
                   pre_connect, applied, spring_io, builder, fill, crafting, crafting_io>>

\* tick_simulation, lines 238-255
TickIntegrate ==
    \E flagged \in UnstableInputs :
        /\ InTick("integrate")
        /\ IntegrateReturns(integrate_from(soft_bodies, keys, TickDt, flagged, 0, <<>>,
                                           tick.log))

\* `applied_all` is the state between the two loops, `out` the state after
\* the second.
ConstraintsReturn(applied_all, out) ==
    /\ soft_bodies' = out.soft_bodies
    /\ constraints' = out.constraints
    /\ call' = TickCall(FALSE, next_phase("constraints"))
    /\ tick' = [tick EXCEPT !.pc = next_phase("constraints"), !.log = out.log,
                            !.applied_constraints = applied_all.constraints]
    /\ UNCHANGED <<keys, next_body_key, next_constraint_key, snap, pre_connect, applied,
                   spring_io, builder, fill, crafting, crafting_io>>

RemoveEmptied(applied_all) ==
    remove_empty_constraints(applied_all.soft_bodies, applied_all.constraints,
                             applied_all.empty_constraints, 1, applied_all.log)

\* tick_simulation, lines 257-269
TickConstraints ==
    /\ InTick("constraints")
    /\ ConstraintsReturn(
           apply_constraints(soft_bodies, constraints, SortedSeq(DOMAIN constraints), 1,
                             <<>>, tick.log),
           RemoveEmptied(apply_constraints(soft_bodies, constraints,
                                           SortedSeq(DOMAIN constraints), 1, <<>>,
                                           tick.log)))

\* tick_simulation, lines 271-283
TickCollide ==
    /\ InTick("collide")
    /\ call' = TickCall(collide_pairs(soft_bodies, keys, 1, 0, tick.log).panic,
                        next_phase("collide"))
    /\ tick' = [tick EXCEPT !.pc = next_phase("collide"),
                            !.log = collide_pairs(soft_bodies, keys, 1, 0, tick.log).log]
    /\ UNCHANGED <<soft_bodies, keys, constraints, next_body_key, next_constraint_key,
                   snap, pre_connect, applied, spring_io, builder, fill,
                   crafting, crafting_io>>

DestructionReturns(out, pc) ==
    /\ soft_bodies' = out.world.soft_bodies
    /\ constraints' = out.world.constraints
    /\ keys' = out.world.keys
    /\ next_body_key' = out.world.next_body_key
    /\ call' = TickCall(out.world.result = "panic", next_phase(pc))
    /\ tick' = [tick EXCEPT !.pc = next_phase(pc), !.log = out.log]
    /\ UNCHANGED <<next_constraint_key, snap, pre_connect, applied, spring_io, builder,
                   fill, crafting, crafting_io>>

World == Destroyed("Some", soft_bodies, constraints, next_constraint_key, keys,
                   next_body_key)

\* tick_simulation, lines 285-287
TickDestroyUnstable ==
    /\ InTick("destroy_unstable")
    /\ DestructionReturns(destroy_unstable(World, tick.unstable_soft_bodies, 1, tick.log),
                          "destroy_unstable")

\* tick_simulation, lines 289-318
TickCleanup ==
    /\ InTick("cleanup")
    /\ DestructionReturns(cleanup_from(World, 0, tick.log), "cleanup")

NextTick ==
    \/ Return
    \/ ConnectAttatchmentPoints
    \/ DisconnectAttatchmentPoint
    \/ TickGrab
    \/ TickIntegrate
    \/ TickConstraints
    \/ TickCollide
    \/ TickDestroyUnstable
    \/ TickCleanup

SpecTick == InitTick /\ [][NextTick]_vars

\* In the behaviours of SpecTick no one-sided check finds a point of one
\* body inside the other, so the response of lines 353-389 of soft_body.rs
\* has nothing to move.
NoResponse == \A n \in DOMAIN tick.log : tick.log[n].phase # "response"

(* Claims about the tick, checked under SpecTick *)

\* The tick has returned or panicked.
TickEnded == call.op = "tick" /\ call.result # "running"

\* C11: a tick_simulation call that starts with the key list equal to the
\* set of live bodies does not panic, and when it returns the key list holds
\* exactly the keys of the bodies in the collection, each once, however many
\* bodies were flagged unstable and whether or not fragments were inserted.
C11_KeysMatchLiveBodies ==
    (TickEnded /\ tick.keys_were_live)
    => /\ call.result = "Some"
       /\ KeysAreLiveBodies(keys, soft_bodies)

-----------------------------------------------------------------------------
(* Claims about connection states, checked under Spec *)

\* The bodies that the connected attachment points of body k lead to.
Neighbours(sb, k) ==
    {Unwrap(sb[k].attatchment_points[i].connection).soft_body :
        i \in {j \in DOMAIN sb[k].attatchment_points :
                  sb[k].attatchment_points[j].connection # None}} \cap DOMAIN sb

RECURSIVE ReachableFrom(_, _)
ReachableFrom(sb, S) ==
    IF (UNION {Neighbours(sb, k) : k \in S}) \subseteq S THEN S
    ELSE ReachableFrom(sb, S \cup UNION {Neighbours(sb, k) : k \in S})

Sources(sb) == {k \in DOMAIN sb : sb[k].connection_state = "Source"}

\* C12: after any connect_attachment_points, disconnect_attachment_point or
\* destroy_soft_body call, accepted or rejected, every body that is not a
\* Source is Connected exactly when it can be reached from a Source through
\* connected attachment points and Disconnected otherwise, and every Source
\* that is still alive is still a Source.
C12_ConnectedIffReachable ==
    (call.op \in {"connect", "disconnect", "destroy"} /\ call.result # "panic")
    => /\ \A k \in DOMAIN soft_bodies \ Sources(soft_bodies) :
            soft_bodies[k].connection_state =
                IF k \in ReachableFrom(soft_bodies, Sources(soft_bodies))
                THEN "Connected" ELSE "Disconnected"
       /\ Sources(snap.soft_bodies) \cap DOMAIN soft_bodies \subseteq Sources(soft_bodies)

-----------------------------------------------------------------------------
(* The propagations step by step (simulation.rs), SpecFlood *)

\* Frames the call stack holds; a propagation that needs more has
\* overflowed the stack.
MaxDepth == 8

\* A frame of clear_connections_from or connect_attatched_soft_bodies: at
\* "enter" the call has just been made; at "loop" it is in the for loop over
\* the clone of the attachment points, about to look at number i.
Frame(soft_body_key, at, aps, i, source) ==
    [soft_body_key |-> soft_body_key, at |-> at, attatchment_points |-> aps, i |-> i,
     source |-> source]

NoFill == [function |-> "none", status |-> "idle", stack |-> <<>>, source |-> None]

Top == fill.stack[Len(fill.stack)]

Callers == SubSeq(fill.stack, 1, Len(fill.stack) - 1)

\* The callee has returned `result`: the caller takes it (lines 971-975 of
\* clear_connections_from; connect_attatched_soft_bodies returns nothing)
\* and moves on, or the outermost call is over.
ReturnTo(callers, result) ==
    IF callers = <<>>
    THEN [fill EXCEPT !.status = "returned", !.stack = <<>>, !.source = result]
    ELSE [fill EXCEPT !.stack =
             [callers EXCEPT ![Len(callers)] =
                 [@ EXCEPT !.i = @ + 1,
                           !.source = IF result # None THEN result ELSE @]]]

\* The body is one the function recolours and walks on from: lines 953 and
\* 985-988.
Walks(function, state) ==
    IF function = "clear_connections_from" THEN is_connected(state)
    ELSE state \in {"Disconnected", "Source"}

\* Lines 954-956 and 989-991.
Recoloured(function, state) ==
    IF function = "clear_connections_from"
    THEN (IF state = "Connected" THEN "Disconnected" ELSE state)
    ELSE (IF state = "Disconnected" THEN "Connected" ELSE state)

FloodFrame ==
    UNCHANGED <<keys, constraints, next_body_key, next_constraint_key, call, snap,
                pre_connect, applied, spring_io, builder, tick, crafting, crafting_io>>

\* A caller invokes one of the two propagations on a live body.
FloodCall ==
    \E function \in {"clear_connections_from", "connect_attatched_soft_bodies"},
       soft_body_key \in DOMAIN soft_bodies :
        /\ fill.status \in {"idle", "returned"}
        /\ fill' = [function |-> function, status |-> "running",
                    stack |-> <<Frame(soft_body_key, "enter", <<>>, 0, None)>>,
                    source |-> None]
        /\ UNCHANGED soft_bodies
        /\ FloodFrame

\* Lines 949-960 and 983-991: the test of the body's state, its new colour,
\* and the clone of its attachment points.
FloodEnter ==
    /\ fill.status = "running"
    /\ Top.at = "enter"
    /\ IF Walks(fill.function, soft_bodies[Top.soft_body_key].connection_state)
       THEN /\ soft_bodies' =
                  [soft_bodies EXCEPT ![Top.soft_body_key].connection_state =
                      Recoloured(fill.function, @)]
            /\ fill' = [fill EXCEPT !.stack[Len(fill.stack)] =
                           Frame(Top.soft_body_key, "loop",
                                 soft_bodies[Top.soft_body_key].attatchment_points, 0,
                                 IF /\ fill.function = "clear_connections_from"
                                    /\ soft_bodies[Top.soft_body_key].connection_state
                                           = "Source"
                                 THEN Some(Top.soft_body_key) ELSE None)]
       ELSE /\ fill' = ReturnTo(Callers, None)
            /\ UNCHANGED soft_bodies
    /\ FloodFrame

AtConnection ==
    /\ fill.status = "running"
    /\ Top.at = "loop"
    /\ Top.i < Len0(Top.attatchment_points)

\* Lines 962-971 and 993-1002: one attachment point of the clone; a
\* connected one makes the recursive call.
FloodVisit ==
    /\ AtConnection
    /\ IF Top.attatchment_points[Top.i].connection = None
       THEN fill' = [fill EXCEPT !.stack[Len(fill.stack)].i = @ + 1]
       ELSE /\ Len(fill.stack) < MaxDepth
            /\ fill' = [fill EXCEPT !.stack =
                           Append(@, Frame(Unwrap(Top.attatchment_points[Top.i].connection)
                                               .soft_body,
                                           "enter", <<>>, 0, None))]
    /\ UNCHANGED soft_bodies
    /\ FloodFrame

\* The recursive call finds no room on the stack.
FloodOverflow ==
    /\ AtConnection
    /\ Top.attatchment_points[Top.i].connection # None
    /\ Len(fill.stack) >= MaxDepth
    /\ fill' = [fill EXCEPT !.status = "stack overflow"]
    /\ UNCHANGED soft_bodies
    /\ FloodFrame

\* Lines 979 and 1005: the loop is over and the call returns.
FloodReturn ==
    /\ fill.status = "running"
    /\ Top.at = "loop"
    /\ Top.i >= Len0(Top.attatchment_points)
    /\ fill' = ReturnTo(Callers, Top.source)
    /\ UNCHANGED soft_bodies
    /\ FloodFrame

\* Three triangles apart from each other, each with two one-point spans.
FloodBodies(states) ==
    [k \in 1..3 |-> MkBody(TriangleAt(3 * k, 0),
                           Attatchments(MkAttatchment(0, 1), MkAttatchment(1, 1)),
                           states[k], None)]

\* The connect_attatchment_points calls pairs[n..] made one after the other.
RECURSIVE ConnectAll(_, _, _)
ConnectAll(out, pairs, n) ==
    IF n > Len(pairs) THEN out
    ELSE ConnectAll(connect_attatchment_points(out.soft_bodies, out.constraints,
                                               out.next_constraint_key,
                                               pairs[n][1], pairs[n][2]),
                    pairs, n + 1)

\* Attachment graphs, each given by the bodies' states at insertion and the
\* connect calls that built it: a chain from the Source, a cycle through the
\* Source, two Sources attached to each other, and two attached Sources with
\* a third body on one of them.
FloodGraphs ==
    {[states |-> <<"Source", "Disconnected", "Disconnected">>,
      pairs |-> <<<<Handle(1, 0), Handle(2, 0)>>, <<Handle(2, 1), Handle(3, 0)>>>>],
     [states |-> <<"Source", "Disconnected", "Disconnected">>,
      pairs |-> <<<<Handle(1, 0), Handle(2, 0)>>, <<Handle(2, 1), Handle(3, 0)>>,
                  <<Handle(3, 1), Handle(1, 1)>>>>],
     [states |-> <<"Source", "Source", "Disconnected">>,
      pairs |-> <<<<Handle(1, 0), Handle(2, 0)>>>>],
     [states |-> <<"Source", "Source", "Disconnected">>,
      pairs |-> <<<<Handle(3, 0), Handle(2, 1)>>, <<Handle(1, 0), Handle(2, 0)>>>>]}

InitFlood ==
    \E graph \in FloodGraphs :
        LET built == ConnectAll(Outcome("Some", FloodBodies(graph.states), <<>>, 1),
                                graph.pairs, 1)
        IN /\ built.result = "Some"
           /\ soft_bodies = built.soft_bodies
           /\ keys = update_keys(built.soft_bodies)
           /\ constraints = built.constraints
           /\ next_body_key = 4
           /\ next_constraint_key = built.next_constraint_key
           /\ call = NoCall
           /\ snap = Snapshot(built.soft_bodies, built.constraints)
           /\ pre_connect = NoPreConnect
           /\ applied = 0
           /\ spring_io = Idle
           /\ builder = Idle
           /\ tick = NoTick
           /\ fill = NoFill
           /\ crafting = Cleared
           /\ crafting_io = NoCraftingCall

FloodStep == FloodEnter \/ FloodVisit \/ FloodOverflow \/ FloodReturn

NextFlood ==
    \/ FloodCall
    \/ FloodEnter
    \/ FloodVisit
    \/ FloodOverflow
    \/ FloodReturn

\* A call that has been made keeps executing.
SpecFlood == InitFlood /\ [][NextFlood]_vars /\ WF_vars(FloodStep)

\* C13: clear_connections_from and connect_attached_soft_bodies terminate on
\* every attachment graph, graphs with cycles and graphs in which two Source
\* bodies are attached to each other included: a propagation that has been
\* called returns.
C13_PropagationTerminates == (fill.status = "running") ~> (fill.status = "returned")

\* The same on the graphs that hold at most one Source.
OneSourceTerminates ==
    (fill.status = "running" /\ Cardinality(Sources(soft_bodies)) <= 1)
        ~> (fill.status = "returned")

-----------------------------------------------------------------------------
(* Claims about stale members, checked under SpecHold *)

\* The members whose point's slot holds the constraint's own key.
Owned(points, sb, key) ==
    {h \in Members(points) : Resolves(sb, h) /\ PointOf(sb, h).constraint = Some(key)}

\* C14: apply_to_soft_bodies drops from the member list every handle that
\* does not resolve and every handle whose point's slot does not hold this
\* constraint's key, be the slot empty or filled with another key; the
\* members left, those whose slot holds the key, are averaged and
\* overwritten, and no other point is touched.
C14_OnlyOwnMembersKept ==
    (call.op = "apply")
    => LET own == Owned(snap.constraints[call.key], snap.soft_bodies, call.key)
       IN /\ Members(constraints[call.key]) = own
          /\ own # {} => Averaged(own)
          /\ \A k \in DOMAIN soft_bodies : \A p \in DOMAIN soft_bodies[k].shape :
                Handle(k, p) \notin own
                => soft_bodies[k].shape[p] = snap.soft_bodies[k].shape[p]

-----------------------------------------------------------------------------
(* Claims about the constraint phase of the tick, checked under SpecTick *)

\* The tick is past its constraint phase and has not panicked.
ConstraintsApplied ==
    /\ call.op = "tick"
    /\ call.result # "panic"
    /\ tick.pc \in {"collide", "destroy_unstable", "cleanup", "done"}

SlotsHolding(sb, key) ==
    {Handle(k, p) : k \in DOMAIN sb, p \in 0..3} \cap
        {h \in {Handle(k, p) : k \in DOMAIN sb, p \in 0..3} :
            Resolves(sb, h) /\ PointOf(sb, h).constraint = Some(key)}

-----------------------------------------------------------------------------
(* insert_constraint called on its own, between connects and disconnects *)

\* Members a caller may name: the points the attachment spans cover, and a
\* handle into a body that does not exist.
MemberInputs ==
    {Handle(k, p) : k \in DOMAIN soft_bodies, p \in {0, 1}}
        \cup {Handle(2, 2), Handle(next_body_key, 0)}

\* The state an insert_constraint call leaves; the key it returns is recorded.
InsertReturns(out, key, points) ==
    /\ soft_bodies' = out.soft_bodies
    /\ constraints' = out.constraints
    /\ next_constraint_key' = key + 1
    /\ call' = [op |-> "insert", handles |-> points, key |-> key, result |-> "Some"]
    /\ snap' = Snapshot(soft_bodies, constraints)
    /\ pre_connect' = NoPreConnect
    /\ UNCHANGED <<keys, next_body_key, harness>>

\* insert_constraint(Constraint::HoldTogether { points: vec![a, b] }), the
\* member lists connect_attatchment_points builds: two different points.
InsertConstraint ==
    \E point_a \in MemberInputs, point_b \in MemberInputs :
        /\ Running
        /\ point_a # point_b
        /\ next_constraint_key <= MaxConstraintKeys
        /\ InsertReturns(insert_constraint(soft_bodies, constraints, next_constraint_key,
                                           <<point_a, point_b>>),
                         next_constraint_key, <<point_a, point_b>>)

NextInsert ==
    \/ Return
    \/ ConnectAttatchmentPoints
    \/ DisconnectAttatchmentPoint
    \/ InsertConstraint

SpecInsert == Init /\ [][NextInsert]_vars

\* The keys the resolvable members of `points` hold in their slots.
KeysHeld(sb, points) ==
    {Unwrap(PointOf(sb, h).constraint) :
        h \in {m \in Members(points) : Resolves(sb, m) /\ PointOf(sb, m).constraint # None}}

AllPoints(sb) == UNION {{Handle(k, p) : p \in DOMAIN sb[k].shape} : k \in DOMAIN sb}

\* Every slot names a constraint of the collection that lists the point.
SlotsAreMemberships ==
    \A h \in AllPoints(soft_bodies) :
        LET slot == PointOf(soft_bodies, h).constraint
        IN slot # None
           => /\ Unwrap(slot) \in DOMAIN constraints
              /\ h \in Members(constraints[Unwrap(slot)])

\* C16: after insert_constraint every resolvable member's slot holds the new
\* key, every constraint a member held before is removed, every other point
\* of those constraints whose slot still named them is a member of the new
\* constraint with its slot set to the new key; and in every state each slot
\* names a constraint that is in the collection and lists the point.
C16_InsertAbsorbsOldConstraints ==
    /\ SlotsAreMemberships
    /\ (call.op = "insert")
       => /\ call.key \in DOMAIN constraints
          /\ \A h \in Members(call.handles) :
                Resolves(soft_bodies, h)
                => /\ PointOf(soft_bodies, h).constraint = Some(call.key)
                   /\ h \in Members(constraints[call.key])
          /\ \A old \in KeysHeld(snap.soft_bodies, call.handles) :
                /\ old \notin DOMAIN constraints
                /\ old \in DOMAIN snap.constraints
                   => \A q \in Members(snap.constraints[old]) :
                         (Resolves(snap.soft_bodies, q)
                          /\ PointOf(snap.soft_bodies, q).constraint = Some(old))
                         => /\ PointOf(soft_bodies, q).constraint = Some(call.key)
                            /\ q \in Members(constraints[call.key])
          /\ \A k \in DOMAIN snap.constraints \ KeysHeld(snap.soft_bodies, call.handles) :
                k \in DOMAIN constraints /\ constraints[k] = snap.constraints[k]

\* An insert whose two members held two different constraints, each with a
\* further point that was regrouped into the new one.
C16_Witness ==
    /\ call.op = "insert"
    /\ Cardinality(KeysHeld(snap.soft_bodies, call.handles)) = 2
    /\ Cardinality(Members(constraints[call.key])) >= 4

-----------------------------------------------------------------------------
(* The pairing of a successful connect, checked under Spec *)

ConnectSucceeded ==
    /\ call.op = "connect"
    /\ call.result = "Some"
    /\ pre_connect.valid

\* The i-th pair of the spans of handles a and b: A forward, B backward.
PairedPointA(sb, a, i) ==
    Handle(a.soft_body, (AttatchmentOf(sb, a).start_point + i) % Len0(sb[a.soft_body].shape))

PairedPointB(sb, b, i) ==
    Handle(b.soft_body,
           (AttatchmentOf(sb, b).start_point + AttatchmentOf(sb, b).length - 1 - i)
               % Len0(sb[b.soft_body].shape))

\* How many pairs of the spans name point h.
TimesPaired(sb, a, b, h) ==
    LET length == AttatchmentOf(sb, a).length
    IN Cardinality({i \in 0..(length - 1) : PairedPointA(sb, a, i) = h})
       + Cardinality({i \in 0..(length - 1) : PairedPointB(sb, b, i) = h})

\* C17: a successful connect on spans of length L sets the two connection
\* fields to each other, adds to each point's counter the number of pairs
\* that name it, where pair i is point (startA + i) mod lenA of A and point
\* (startB + L - 1 - i) mod lenB of B, and issues L constraint keys, one per
\* pair; after the merging both points of each pair are members of one
\* constraint created by the call, and their slots hold its key.
C17_ConnectPairsOpposite ==
    ConnectSucceeded
    => LET a == call.handles[1]
           b == call.handles[2]
           before == pre_connect.soft_bodies
           length == AttatchmentOf(before, a).length
       IN /\ AttatchmentOf(soft_bodies, a).connection = Some(b)
          /\ AttatchmentOf(soft_bodies, b).connection = Some(a)
          /\ \A h \in AllPoints(before) :
                PointOf(soft_bodies, h).num_connections
                    = PointOf(before, h).num_connections + TimesPaired(before, a, b, h)
          /\ Cardinality(pre_connect.created) = length
          /\ pre_connect.created \cap DOMAIN pre_connect.constraints = {}
          /\ \A i \in 0..(length - 1) :
                \E key \in pre_connect.created \cap DOMAIN constraints :
                    /\ PointOf(soft_bodies, PairedPointA(before, a, i)).constraint = Some(key)
                    /\ PointOf(soft_bodies, PairedPointB(before, b, i)).constraint = Some(key)
                    /\ {PairedPointA(before, a, i), PairedPointB(before, b, i)}
                           \subseteq Members(constraints[key])
          /\ \A key \in pre_connect.created \cap DOMAIN constraints :
                \A h \in Members(constraints[key]) :
                    \/ \E i \in 0..(length - 1) :
                          h \in {PairedPointA(before, a, i), PairedPointB(before, b, i)}
                    \/ /\ PointOf(before, h).constraint # None
                       /\ Unwrap(PointOf(before, h).constraint) \notin DOMAIN constraints

\* A successful connect of two-point spans, one of which wraps around the end
\* of its shape, with no point of the spans in a constraint before.
C17_Witness ==
    /\ ConnectSucceeded
    /\ AttatchmentOf(soft_bodies, call.handles[1]).length = 2
    /\ Cardinality(pre_connect.created \cap DOMAIN constraints) = 2
    /\ \E n \in 1..2 :
          LET ap == AttatchmentOf(soft_bodies, call.handles[n])
          IN ap.start_point + ap.length > Len0(soft_bodies[call.handles[n].soft_body].shape)

-----------------------------------------------------------------------------
(* Disconnecting and the tick after it, checked under SpecTick *)

\* The point pairs of the attachment points that are connected in sb.
ConnectedPairs(sb) ==
    UNION {
        UNION {
            {{PairedPointA(sb, Handle(k, i), n),
              PairedPointB(sb, Unwrap(sb[k].attatchment_points[i].connection), n)} :
                n \in 0..(sb[k].attatchment_points[i].length - 1)} :
            i \in {j \in DOMAIN sb[k].attatchment_points :
                      /\ sb[k].attatchment_points[j].connection # None
                      /\ HasAttatchment(sb, Unwrap(sb[k].attatchment_points[j].connection))}} :
        k \in DOMAIN sb}

\* The points joined to a point of S through a chain of connected pairs.
RECURSIVE LinkedTo(_, _)
LinkedTo(sb, S) ==
    LET next == S \cup UNION {pair \in ConnectedPairs(sb) : pair \cap S # {}}
    IN IF next = S THEN S ELSE LinkedTo(sb, next)

DisconnectSucceeded == call.op = "disconnect" /\ call.result = "Some"

\* The constraint phase of a tick has just ended.
JustConstrained == call.op = "tick" /\ call.result = "running" /\ tick.pc = "collide"

\* The disconnect itself: every point's counter went down by the number of
\* pairs naming it, and a slot was emptied exactly where that brought the
\* counter to zero.
DisconnectWalksPairs ==
    DisconnectSucceeded
    => LET a == call.handles[1]
           before == snap.soft_bodies
           b == Unwrap(AttatchmentOf(before, a).connection)
       IN \A h \in AllPoints(before) :
             LET paired == TimesPaired(before, a, b, h)
                 point == PointOf(soft_bodies, h)
             IN /\ point.num_connections = PointOf(before, h).num_connections - paired
                /\ point.constraint =
                      IF paired > 0 /\ point.num_connections = 0 THEN None
                      ELSE PointOf(before, h).constraint

\* The tick after it: the points of every connected pair are held by one
\* constraint.
PartnersStillHeld ==
    JustConstrained
    => \A pair \in ConnectedPairs(soft_bodies) :
          \E key \in DOMAIN tick.applied_constraints :
              pair \subseteq Members(tick.applied_constraints[key])

\* The tick after it: two points held by one constraint are joined by a
\* chain of pairs that are still connected.
HeldOnlyWithPartners ==
    JustConstrained
    => \A key \in DOMAIN tick.applied_constraints :
          \A h \in Members(tick.applied_constraints[key]) :
              Members(tick.applied_constraints[key]) \subseteq LinkedTo(soft_bodies, {h})

\* C18: a successful disconnect decrements the counter of every point of both
\* spans once per pair and empties a slot exactly when the counter reaches
\* zero; a point still covered by another connected attachment point keeps
\* its slot and after the next tick is held together with that attachment
\* point's partner and with no point it is no longer connected to.
C18_DisconnectReleasesPartner ==
    /\ DisconnectWalksPairs
    /\ PartnersStillHeld
    /\ HeldOnlyWithPartners

-----------------------------------------------------------------------------
(* The order of the phases of a tick, checked under SpecTick *)

\* The place of an event's phase in the order of the tick.
PhaseRank(phase) ==
    CASE phase = "grab" -> 1
      [] phase = "integrate" -> 2
      [] phase = "apply" -> 3
      [] phase = "remove" -> 4
      [] phase \in {"pair", "check", "response"} -> 5
      [] phase = "destroy" -> 6
      [] OTHER -> 7

EventsOf(phases) == SelectSeq(tick.log, LAMBDA e : e.phase \in phases)

\* C19: within one tick_simulation call the phases run in this order and do
\* not interleave: grab; integration of every body in key-list order; every
\* constraint applied, then the emptied ones removed; pairwise collision;
\* destruction of the bodies flagged during integration, in the order they
\* were flagged; per-body cleanup.
C19_PhasesInOrder ==
    (call.op = "tick")
    => /\ Len(EventsOf({"grab"})) = 1
       /\ \A m \in DOMAIN tick.log : \A n \in DOMAIN tick.log :
             m < n => PhaseRank(tick.log[m].phase) <= PhaseRank(tick.log[n].phase)
       /\ \A n \in DOMAIN EventsOf({"integrate"}) : EventsOf({"integrate"})[n].b = n - 1
       /\ (call.result = "running" /\ tick.pc \in {"constraints", "collide", "destroy_unstable"})
          => /\ Len(EventsOf({"integrate"})) = Len0(keys)
             /\ \A n \in DOMAIN EventsOf({"integrate"}) :
                   EventsOf({"integrate"})[n].a = keys[n - 1]
       /\ \A n \in DOMAIN EventsOf({"apply"}) :
             EventsOf({"apply"})[n].a \in DOMAIN tick.applied_constraints
       /\ \A n \in DOMAIN EventsOf({"remove"}) :
             is_empty(tick.applied_constraints[EventsOf({"remove"})[n].a])
       /\ \A n \in DOMAIN EventsOf({"destroy"}) :
             /\ n \in DOMAIN tick.unstable_soft_bodies
             /\ EventsOf({"destroy"})[n].a = tick.unstable_soft_bodies[n][2]
       /\ (call.result = "Some")
          => /\ tick.pc = "done"
             /\ Len(EventsOf({"destroy"})) = Len(tick.unstable_soft_bodies)
             /\ Len(EventsOf({"apply"})) = Cardinality(DOMAIN tick.applied_constraints)

\* A tick has returned in which bodies were integrated, a constraint was
\* applied and another removed, a pair was checked both ways, a flagged body
\* was destroyed and the cleanup visited the bodies left.
C19_Witness ==
    /\ call.op = "tick"
    /\ call.result = "Some"
    /\ Len(EventsOf({"integrate"})) >= 2
    /\ Len(EventsOf({"apply"})) >= 2
    /\ Len(EventsOf({"remove"})) >= 1
    /\ Len(EventsOf({"check"})) >= 2
    /\ Len(EventsOf({"destroy"})) >= 1
    /\ Len(EventsOf({"refresh", "decay", "shatter"})) >= 2

-----------------------------------------------------------------------------
(* The collision phase of a tick, checked under SpecTick *)

\* The collision phase of the tick in progress has just ended or panicked.
JustCollided == call.op = "tick" /\ tick.pc = "destroy_unstable"

\* How many events of the phase name body a, then body b.
TimesLogged(phase, a, b) ==
    Cardinality({n \in DOMAIN tick.log :
                    tick.log[n] = TickEvent(phase, a, b)})

\* C20: in the collision phase every unordered pair of distinct entries of
\* the key list is examined exactly once, the two keys given to
\* get_disjoint_mut are distinct and live, so the phase does not panic, and a
\* pair whose bounding boxes overlap is checked once in each direction, a
\* pair whose boxes do not overlap not at all.
C20_EveryPairCollidedOnce ==
    JustCollided
    => /\ call.result = "running"
       /\ \A i \in DOMAIN keys : \A j \in DOMAIN keys :
             i < j => TimesLogged("pair", keys[i], keys[j])
                          + TimesLogged("pair", keys[j], keys[i]) = 1
       /\ 2 * Len(EventsOf({"pair"})) = Len0(keys) * (Len0(keys) - 1)
       /\ \A n \in DOMAIN EventsOf({"pair"}) :
             LET first_key == EventsOf({"pair"})[n].a
                 second_key == EventsOf({"pair"})[n].b
                 checks == IF intersects_other(soft_bodies[first_key].bounding_box,
                                               soft_bodies[second_key].bounding_box)
                           THEN 1 ELSE 0
             IN /\ first_key # second_key
                /\ {first_key, second_key} \subseteq DOMAIN soft_bodies
                /\ TimesLogged("check", first_key, second_key) = checks
                /\ TimesLogged("check", second_key, first_key) = checks
       /\ Len(EventsOf({"check"})) =
             2 * Cardinality({n \in DOMAIN EventsOf({"pair"}) :
                                 TimesLogged("check", EventsOf({"pair"})[n].a,
                                             EventsOf({"pair"})[n].b) = 1})

\* A collision phase over three or more bodies in which one pair's boxes
\* overlap and another pair's do not.
C20_Witness ==
    /\ JustCollided
    /\ call.result = "running"
    /\ Len0(keys) >= 3
    /\ Len(EventsOf({"check"})) >= 2
    /\ 2 * Len(EventsOf({"pair"})) > Len(EventsOf({"check"}))

-----------------------------------------------------------------------------
(* Ticks over degenerate bodies and debris, SpecDebris *)

ShapeOf(corners) ==
    [i \in 0..(Len(corners) - 1) |-> MkPoint(corners[i + 1][1], corners[i + 1][2], 1)]

\* A unit square wound clockwise: its signed area is negative and no two of
\* its lines cross.
InvertedSquareAt(x) == ShapeOf(<<<<x, 0>>, <<x, 1>>, <<x + 1, 1>>, <<x + 1, 0>>>>)

\* A quadrilateral whose first and third lines cross.
BowtieAt(x) == ShapeOf(<<<<x, 0>>, <<x + 1, 1>>, <<x + 1, 0>>, <<x, 1>>>>)

InvertedTriangleAt(x) == ShapeOf(<<<<x, 0>>, <<x, 1>>, <<x + 1, 0>>>>)

NoAttatchments == <<>>

Whole(shape) == MkBody(shape, NoAttatchments, "Disconnected", None)

Debris(shape) == MkBody(shape, NoAttatchments, "Disconnected", Some(FreshDebrisAge))

\* The bodies a simulation may hold when a tick starts: sound and degenerate
\* bodies, whole and debris, apart from each other.
DebrisScenarios ==
    {[k \in 1..2 |-> IF k = 1 THEN first ELSE second] :
        first \in {Whole(InvertedSquareAt(0)), Whole(BowtieAt(0)), Whole(Square),
                   Debris(BowtieAt(0))},
        second \in {Debris(TriangleAt(5, 0)), Debris(InvertedTriangleAt(5)),
                    Whole(TriangleAt(5, 0)), Whole(InvertedTriangleAt(5))}}

InitDebris ==
    /\ soft_bodies \in DebrisScenarios
    /\ keys = update_keys(soft_bodies)
    /\ constraints = <<>>
    /\ next_body_key = 3
    /\ next_constraint_key = 1
    /\ call = NoCall
    /\ snap = Snapshot(soft_bodies, <<>>)
    /\ pre_connect = NoPreConnect
    /\ applied = 0
    /\ spring_io = Idle
    /\ builder = Idle
    /\ tick = NoTick
    /\ fill = Idle
    /\ crafting = Cleared
    /\ crafting_io = NoCraftingCall

NextDebris ==
    \/ Return
    \/ TickGrab
    \/ TickIntegrate
    \/ TickConstraints
    \/ TickCollide
    \/ TickDestroyUnstable
    \/ TickCleanup

SpecDebris == InitDebris /\ [][NextDebris]_vars

\* The tick has returned.
TickReturned == call.op = "tick" /\ call.result = "Some"

\* C21: a body whose signed area is negative when the cleanup phase examines
\* it is not in the collection after the tick: no body that the cleanup kept
\* has a negative area.
C21_NegativeAreaRemoved ==
    TickReturned
    => \A n \in DOMAIN EventsOf({"refresh"}) :
          LET key == EventsOf({"refresh"})[n].a
          IN key \in DOMAIN soft_bodies => ~RLt(area(soft_bodies[key]), R(0))

\* The debris half of C21: no debris body that the cleanup kept has a
\* negative area or an age at the decay time.
DebrisWithNegativeAreaRemoved ==
    TickReturned
    => \A n \in DOMAIN EventsOf({"refresh"}) :
          LET key == EventsOf({"refresh"})[n].a
          IN (key \in DOMAIN soft_bodies /\ is_debris(soft_bodies[key]))
             => ~debris_is_removed(soft_bodies[key])

\* The bodies that a step takes out of the collection, and those it adds.
Gone == DOMAIN soft_bodies \ DOMAIN soft_bodies'

Born == DOMAIN soft_bodies' \ DOMAIN soft_bodies

\* The next state's log has an event of one of the phases for body key.
LoggedNext(phases, key) ==
    \E n \in DOMAIN tick'.log : tick'.log[n].phase \in phases /\ tick'.log[n].a = key

\* No attachment point of the next state's bodies is joined to body key.
NothingJoinedTo(key) ==
    \A k \in DOMAIN soft_bodies' :
        \A i \in DOMAIN soft_bodies'[k].attatchment_points :
            soft_bodies'[k].attatchment_points[i].connection # None
            => Unwrap(soft_bodies'[k].attatchment_points[i].connection).soft_body # key

\* One step of a tick, as C22 allows it.
DebrisOnlyDecays ==
    /\ \A key \in Gone :
          IF is_debris(soft_bodies[key])
          THEN /\ InTick("cleanup")
               /\ debris_is_removed(soft_bodies[key])
               /\ LoggedNext({"decay"}, key)
               /\ ~LoggedNext({"destroy", "shatter"}, key)
          ELSE /\ InTick("destroy_unstable") \/ InTick("cleanup")
               /\ LoggedNext({"destroy", "shatter"}, key)
               /\ ~LoggedNext({"decay"}, key)
               /\ NothingJoinedTo(key)
    /\ \A n \in DOMAIN tick'.unstable_soft_bodies :
          tick'.unstable_soft_bodies[n][2] \in DOMAIN soft_bodies
          => ~is_debris(soft_bodies[tick'.unstable_soft_bodies[n][2]])
    /\ \A key \in Born : is_debris(soft_bodies'[key])
    /\ Born # {} => \E key \in Gone : ~is_debris(soft_bodies[key])
    /\ Cardinality(Born)
          >= Cardinality({key \in Gone : ~is_debris(soft_bodies[key])})

\* C22: a debris body is never destroyed and decomposed: flagged unstable or
\* self-intersecting, it yields no fragments, and it leaves the collection
\* only in the cleanup phase, removed outright with its age at the decay time
\* or its area negative; a body that is not debris leaves the collection
\* during a tick only through destroy_soft_body, its attachment points
\* disconnected and its fragments inserted.
C22_DebrisOnlyDecays == [][DebrisOnlyDecays]_vars

\* A tick has returned in which a debris body was kept by the cleanup,
\* another debris body was removed by it, and a body that was not debris was
\* destroyed and decomposed.
C22_Witness ==
    /\ TickReturned
    /\ Len(EventsOf({"decay"})) >= 1
    /\ Len(EventsOf({"destroy", "shatter"})) >= 1
    /\ \E n \in DOMAIN EventsOf({"refresh"}) :
          /\ EventsOf({"refresh"})[n].a \in DOMAIN soft_bodies
          /\ is_debris(soft_bodies[EventsOf({"refresh"})[n].a])

-----------------------------------------------------------------------------
(* The grab step with a target and the pull forces, SpecGrab *)

AddImpulse(sb, h, v) == [sb EXCEPT ![h.soft_body].shape[h.index].impulse = VAdd(@, v)]

\* push_together, lines 745-818: the impulses on the paired points.  `pull`
\* stands for impulse / 2.0 * dt of the joining springs.
RECURSIVE push_pairs(_, _, _, _, _, _)
push_pairs(sb, handle_a, handle_b, i, length, pull) ==
    IF i >= length THEN sb
    ELSE LET pa == Handle(handle_a.soft_body, point_a_at(sb, handle_a, i))
             pb == Handle(handle_b.soft_body, point_b_at(sb, handle_b, i))
         IN push_pairs(AddImpulse(AddImpulse(sb, pa, VScale(pull, PointOf(sb, pa).mass)),
                                  pb, VSub(ZERO, VScale(pull, PointOf(sb, pb).mass))),
                       handle_a, handle_b, i + 1, length, pull)

\* Simulation::push_together
push_together(sb, cs, nck, handle_a, handle_b, pull) ==
    IF \/ handle_a.soft_body = handle_b.soft_body
       \/ handle_a.soft_body \notin DOMAIN sb
       \/ handle_b.soft_body \notin DOMAIN sb
    THEN Outcome("panic", sb, cs, nck)
    ELSE IF ~HasAttatchment(sb, handle_a) \/ ~HasAttatchment(sb, handle_b)
    THEN Outcome("panic", sb, cs, nck)
    ELSE Outcome("Some",
                 push_pairs(sb, handle_a, handle_b, 0, AttatchmentOf(sb, handle_a).length,
                            pull),
                 cs, nck)

RECURSIVE push_span(_, _, _, _, _)
push_span(sb, handle, i, length, pull) ==
    IF i >= length THEN sb
    ELSE LET p == Handle(handle.soft_body, point_a_at(sb, handle, i))
         IN push_span(AddImpulse(sb, p, VScale(pull, PointOf(sb, p).mass)),
                      handle, i + 1, length, pull)

\* Simulation::push_towards_mouse
push_towards_mouse(sb, cs, nck, handle, pull) ==
    IF ~HasAttatchment(sb, handle) THEN Outcome("panic", sb, cs, nck)
    ELSE Outcome("Some",
                 push_span(sb, handle, 0, AttatchmentOf(sb, handle).length, pull),
                 cs, nck)

\* update_grabbing, lines 699-715, with the selected body live and grabbing
grab_selected(sb, cs, nck, handle, input_state, pull) ==
    IF input_state.clicking /\ ~HasAttatchment(sb, handle)
    THEN Outcome("panic", sb, cs, nck)
    ELSE IF input_state.clicking /\ AttatchmentOf(sb, handle).connection # None
    THEN unwrap_outcome(disconnect_attatchment_point(sb, cs, nck, handle))
    ELSE IF input_state.target_attatchment_point # None
    THEN push_together(sb, cs, nck, handle,
                       Unwrap(input_state.target_attatchment_point), pull)
    ELSE push_towards_mouse(sb, cs, nck, handle, pull)

\* Simulation::update_grabbing for any input state
update_grabbing_towards(sb, cs, nck, input_state, pull) ==
    IF input_state.selected_attatchment_point = None THEN Outcome("Some", sb, cs, nck)
    ELSE IF Unwrap(input_state.selected_attatchment_point).soft_body \notin DOMAIN sb
    THEN Outcome("Some", sb, cs, nck)
    ELSE IF ~input_state.grabbing THEN Outcome("Some", sb, cs, nck)
    ELSE grab_selected(sb, cs, nck, Unwrap(input_state.selected_attatchment_point),
                       input_state, pull)

\* A Source square and a triangle that can be grabbed, and a square with gas
\* in it and no attachment point, all apart from each other.
GrabBodies ==
    [k \in 1..3 |->
        CASE k = 1 -> MkBody(Square,
                             Attatchments(MkAttatchment(1, 2), MkAttatchment(1, 1)),
                             "Source", None)
          [] k = 2 -> MkBody(TriangleAt(3, 0),
                             Attatchments(MkAttatchment(2, 2), MkAttatchment(2, 1)),
                             "Disconnected", None)
          [] OTHER -> [MkBody(ShapeOf(<<<<-3, 0>>, <<-2, 0>>, <<-2, 1>>, <<-3, 1>>>>),
                              NoAttatchments, "Disconnected", None)
                          EXCEPT !.gas_force = R(240)]]

InitGrab ==
    /\ soft_bodies = GrabBodies
    /\ keys = update_keys(GrabBodies)
    /\ constraints = <<>>
    /\ next_body_key = 4
    /\ next_constraint_key = 1
    /\ call = NoCall
    /\ snap = Snapshot(GrabBodies, <<>>)
    /\ pre_connect = NoPreConnect
    /\ applied = 0
    /\ spring_io = Idle
    /\ builder = Idle
    /\ tick = NoTick
    /\ fill = Idle
    /\ crafting = Cleared
    /\ crafting_io = NoCraftingCall

\* Handles the input state may hold when a tick starts: the first attachment
\* point of a live body that has one, of a body that was removed, or of none
\* yet inserted.
GrabbedHandles ==
    {None} \cup {Some(Handle(k, 0)) : k \in {j \in 1..next_body_key :
                                                j \in DOMAIN soft_bodies
                                                => HasAttatchment(soft_bodies, Handle(j, 0))}}

\* impulse / 2.0 * dt of the joining springs, as the positions give it.
PullInputs == {VI(1, -2)}

\* tick_simulation, line 236, for any input state
TickGrabbing ==
    \E selected \in GrabbedHandles, target \in GrabbedHandles,
       grabbing \in BOOLEAN, clicking \in BOOLEAN, pull \in PullInputs :
        /\ Running
        /\ applied < MaxTicks
        /\ applied' = applied + 1
        /\ GrabReturns(update_grabbing_towards(
                           soft_bodies, constraints, next_constraint_key,
                           InputState(selected, target, grabbing, clicking), pull),
                       InputState(selected, target, grabbing, clicking))

NextGrab ==
    \/ Return
    \/ TickGrabbing
    \/ TickIntegrate
    \/ TickConstraints
    \/ TickCollide
    \/ TickDestroyUnstable
    \/ TickCleanup

SpecGrab == InitGrab /\ [][NextGrab]_vars

\* C23: after every tick_simulation call every point of every body that was
\* integrated in that tick has zero accumulated impulse.
C23_ImpulseConsumed ==
    TickReturned
    => \A n \in DOMAIN EventsOf({"integrate"}) :
          LET key == EventsOf({"integrate"})[n].a
          IN key \in DOMAIN soft_bodies
             => \A p \in DOMAIN soft_bodies[key].shape :
                   soft_bodies[key].shape[p].impulse = ZERO

\* A tick has returned whose grab step pushed two spans together and whose
\* integration added pressure impulses: the points have taken up velocity.
C23_Witness ==
    /\ TickReturned
    /\ tick.input_state.grabbing
    /\ tick.input_state.target_attatchment_point # None
    /\ \E key \in DOMAIN soft_bodies :
          /\ soft_bodies[key].pressure # R(0)
          /\ \A p \in DOMAIN soft_bodies[key].shape :
                soft_bodies[key].shape[p].velocity # ZERO
    /\ \E key \in DOMAIN soft_bodies :
          /\ soft_bodies[key].pressure = R(0)
          /\ \E p \in DOMAIN soft_bodies[key].shape :
                soft_bodies[key].shape[p].velocity # ZERO

\* The grab step of the tick in progress has just ended or panicked.
JustGrabbed == call.op = "tick" /\ tick.pc = "integrate"

\* The selected body is live, the player is grabbing, and the target's body
\* is not in the collection or is the selected body.
DanglingTarget ==
    LET selected == tick.input_state.selected_attatchment_point
        target == tick.input_state.target_attatchment_point
    IN /\ selected # None /\ target # None
       /\ tick.input_state.grabbing
       /\ Unwrap(selected).soft_body \in DOMAIN snap.soft_bodies
       /\ \/ Unwrap(target).soft_body \notin DOMAIN snap.soft_bodies
          \/ Unwrap(target).soft_body = Unwrap(selected).soft_body

\* The selected body is not in the collection.
DanglingSelected ==
    /\ tick.input_state.selected_attatchment_point # None
    /\ Unwrap(tick.input_state.selected_attatchment_point).soft_body
           \notin DOMAIN snap.soft_bodies

\* C24: when the body of the selected attachment point or of the target
\* attachment point is not in the collection, or both handles name one body,
\* update_grabbing applies no force and does not panic.
C24_GrabToleratesDangling ==
    (JustGrabbed /\ (DanglingSelected \/ DanglingTarget))
    => /\ call.result # "panic"
       /\ soft_bodies = snap.soft_bodies

\* A selected handle whose body is gone is not found: nothing changes.
SelectedGoneIsNotFound ==
    (JustGrabbed /\ DanglingSelected)
    => /\ call.result # "panic"
       /\ soft_bodies = snap.soft_bodies

\* A target whose body is not in the collection does not make the grab step
\* panic.
TargetGoneIsNotFound ==
    (JustGrabbed /\ DanglingTarget
        /\ Unwrap(tick.input_state.target_attatchment_point).soft_body
               \notin DOMAIN snap.soft_bodies)
    => call.result # "panic"

-----------------------------------------------------------------------------
(* Claims about the connection fields, checked under SpecTick *)

\* The handles of the attachment points that record a connection.
ConnectedHandles(sb) ==
    UNION {{Handle(k, i) : i \in {j \in DOMAIN sb[k].attatchment_points :
                                     sb[k].attatchment_points[j].connection # None}} :
           k \in DOMAIN sb}

PartnerOf(sb, a) == Unwrap(AttatchmentOf(sb, a).connection)

\* C25: in every state reached by connects, disconnects, destructions and
\* ticks, an attachment point a that records b as its connection has b on a
\* live body other than its own, with the same span length and recording a;
\* no attachment point is the partner of two others.
C25_ConnectionsSymmetric ==
    /\ \A a \in ConnectedHandles(soft_bodies) :
          LET b == PartnerOf(soft_bodies, a)
          IN /\ b.soft_body \in DOMAIN soft_bodies
             /\ b.soft_body # a.soft_body
             /\ HasAttatchment(soft_bodies, b)
             /\ AttatchmentOf(soft_bodies, b).length = AttatchmentOf(soft_bodies, a).length
             /\ AttatchmentOf(soft_bodies, b).connection = Some(a)
    /\ \A a1 \in ConnectedHandles(soft_bodies), a2 \in ConnectedHandles(soft_bodies) :
          a1 # a2 => PartnerOf(soft_bodies, a1) # PartnerOf(soft_bodies, a2)

\* A tick has run on two bodies joined by two connections at once.
C25_Witness ==
    /\ TickReturned
    /\ Cardinality(ConnectedHandles(soft_bodies)) = 4
    /\ Cardinality(ConnectedHandles(snap.soft_bodies)) = 4
    /\ next_constraint_key > 3

\* A tick that destroyed a body with a connection: the partner is free again.
DestroyedWhileConnected ==
    /\ TickReturned
    /\ EventsOf({"destroy"}) # <<>>
    /\ ConnectedHandles(snap.soft_bodies) # {}
    /\ ConnectedHandles(soft_bodies) = {}
    /\ \E k \in DOMAIN soft_bodies : k \in DOMAIN snap.soft_bodies

-----------------------------------------------------------------------------
(* Claims about the connection counters, checked under Spec *)

\* The span of the attachment point contains point p of its body.
SpanContains(sb, handle, p) ==
    LET attatchment_point == AttatchmentOf(sb, handle)
        length == Len0(sb[handle.soft_body].shape)
    IN \E i \in 0..(attatchment_point.length - 1) :
          (attatchment_point.start_point + i) % length = p

ConnectedSpansOver(sb, k, p) ==
    {handle \in ConnectedHandles(sb) : handle.soft_body = k /\ SpanContains(sb, handle, p)}

\* C26: in every state reached by connects and disconnects, the counter of
\* each point is the number of connected attachment points of its body whose
\* span contains the point; it is never negative, and a point whose counter
\* is zero has an empty constraint slot.
C26_CounterCountsSpans ==
    \A k \in DOMAIN soft_bodies :
        \A p \in DOMAIN soft_bodies[k].shape :
            /\ soft_bodies[k].shape[p].num_connections
                   = Cardinality(ConnectedSpansOver(soft_bodies, k, p))
            /\ soft_bodies[k].shape[p].num_connections >= 0
            /\ soft_bodies[k].shape[p].num_connections = 0
                  => soft_bodies[k].shape[p].constraint = None

\* A disconnect has returned that took a point shared by two connected
\* spans from two to one, and another point from one to zero.
C26_Witness ==
    /\ call.op = "disconnect"
    /\ call.result = "Some"
    /\ \E k \in DOMAIN soft_bodies :
          /\ k \in DOMAIN snap.soft_bodies
          /\ \E p \in DOMAIN soft_bodies[k].shape :
                /\ snap.soft_bodies[k].shape[p].num_connections = 2
                /\ soft_bodies[k].shape[p].num_connections = 1
                /\ soft_bodies[k].shape[p].constraint # None
          /\ \E p \in DOMAIN soft_bodies[k].shape :
                /\ snap.soft_bodies[k].shape[p].num_connections = 1
                /\ soft_bodies[k].shape[p].num_connections = 0

-----------------------------------------------------------------------------
(* LoopCrafting and Recipe (loop_crafting.rs), SpecLoop *)

\* Direction::ALL
ALL == <<"Right", "Up", "Left", "Down">>

\* Direction::apply_offset
apply_offset(direction, index) ==
    CASE direction = "Right" ->
             IF index[1] < WIDTH - 1 THEN Some(<<index[1] + 1, index[2]>>) ELSE None
      [] direction = "Up" ->
             IF index[2] < HEIGHT - 1 THEN Some(<<index[1], index[2] + 1>>) ELSE None
      [] direction = "Left" ->
             IF index[1] > 0 THEN Some(<<index[1] - 1, index[2]>>) ELSE None
      [] OTHER ->
             IF index[2] > 0 THEN Some(<<index[1], index[2] - 1>>) ELSE None

\* The negation keeping every direction as it is.
neg_keeping_direction(direction) == direction

\* impl Neg for Direction
neg(direction) ==
    CASE direction = "Right" -> "Left"
      [] direction = "Up" -> "Down"
      [] direction = "Left" -> "Right"
      [] OTHER -> "Up"

\* impl RotateCounterClockwise for Direction
rotate_direction(direction) ==
    CASE direction = "Right" -> "Up"
      [] direction = "Up" -> "Left"
      [] direction = "Left" -> "Down"
      [] OTHER -> "Right"

\* impl RotateCounterClockwise for Option<T>
rotate_option(point) == IF point = None THEN None ELSE Some(rotate_direction(Unwrap(point)))

\* The cells of the grid holding a direction.
Marked(self) == {cell \in Cells : self.points[cell] # None}

\* Array2<Option<Direction>>: its shape and its elements.
Array2(dim, at) == [dim |-> dim, at |-> at]

ArrayIndices(dim) == (0..(dim[1] - 1)) \X (0..(dim[2] - 1))

Converted(panic, recipe) == [panic |-> panic, recipe |-> recipe]

Smallest(S) == CHOOSE n \in S : \A other \in S : n <= other

Largest(S) == CHOOSE n \in S : \A other \in S : other <= n

\* Recipe::from(&LoopCrafting), lines 161-192, for a grid with the marked
\* cells `marked`: the bounding box, the array of its size, and the copy loop
\* that indexes the array with the grid's own x and y.
recipe_from_points(self, marked) ==
    LET min_x == Smallest({cell[1] : cell \in marked})
        min_y == Smallest({cell[2] : cell \in marked})
        max_x == Largest({cell[1] : cell \in marked})
        max_y == Largest({cell[2] : cell \in marked})
        size == <<max_x - min_x + 1, max_y - min_y + 1>>
    IN IF \E x \in min_x..max_x, y \in min_y..max_y : <<x, y>> \notin ArrayIndices(size)
       THEN Converted(TRUE, None)
       ELSE Converted(FALSE,
                      Some(Array2(size,
                                  [index \in ArrayIndices(size) |->
                                      IF /\ index[1] \in min_x..max_x
                                         /\ index[2] \in min_y..max_y
                                      THEN self.points[index]
                                      ELSE None])))

\* impl From<&LoopCrafting> for Recipe
recipe_from(self) ==
    IF self.recipe # None THEN Converted(FALSE, self.recipe)
    ELSE IF Marked(self) = {} THEN Converted(TRUE, None)
    ELSE recipe_from_points(self, Marked(self))

\* LoopCrafting::clear
clear(self) ==
    [self EXCEPT !.points = [cell \in Cells |-> None], !.start = None, !.end = None,
                 !.recipe = None]

Tracked(panic, self) == [panic |-> panic, crafting |-> self]

\* track_index, lines 54-68: the first direction of ALL that leads from end
\* to index, if there is one
track_step(self, end, index) ==
    LET leading == {n \in DOMAIN ALL : apply_offset(ALL[n], end) = Some(index)}
        direction == ALL[Smallest(leading)]
    IN IF leading = {} THEN self
       ELSE IF self.points[index] # None
       THEN IF Unwrap(self.points[index]) = neg(direction)
            THEN [self EXCEPT !.points[index] = None, !.end = Some(index)]
            ELSE self
       ELSE [self EXCEPT !.points[end] = Some(direction), !.end = Some(index)]

\* track_index, lines 70-72
track_close(self) ==
    IF self.start = self.end /\ self.points[Unwrap(self.start)] # None
    THEN Tracked(recipe_from(self).panic, [self EXCEPT !.recipe = recipe_from(self).recipe])
    ELSE Tracked(FALSE, self)

\* LoopCrafting::track_index
track_index(self, index) ==
    IF self.recipe # None \/ index[1] >= WIDTH \/ index[2] >= HEIGHT
    THEN Tracked(FALSE, self)
    ELSE IF self.start # None /\ self.end # None
    THEN track_close(track_step(self, Unwrap(self.end), index))
    ELSE Tracked(FALSE, [self EXCEPT !.start = Some(index), !.end = Some(index)])

\* track_index calls in one behaviour.
MaxTracked == 5

\* Indices track_mouse can pass: the cells, and the first column and row
\* beyond the grid.
Indices == (0..WIDTH) \X (0..HEIGHT)

Simulated ==
    UNCHANGED <<soft_bodies, keys, constraints, next_body_key, next_constraint_key, call,
                snap, pre_connect, spring_io, builder, tick, fill>>

TrackIndex ==
    \E index \in Indices :
        /\ applied < MaxTracked
        /\ applied' = applied + 1
        /\ crafting' = track_index(crafting, index).crafting
        /\ crafting_io' = CraftingCall("track_index", index, crafting,
                                       IF track_index(crafting, index).panic
                                       THEN "panic" ELSE "Some")
        /\ Simulated

Clear ==
    /\ crafting # Cleared
    /\ crafting' = clear(crafting)
    /\ crafting_io' = CraftingCall("clear", <<0, 0>>, crafting, "Some")
    /\ UNCHANGED applied
    /\ Simulated

IntoRecipe ==
    /\ crafting_io.op # "from"
    /\ crafting_io' = CraftingCall("from", <<0, 0>>, crafting, recipe_from(crafting))
    /\ UNCHANGED <<crafting, applied>>
    /\ Simulated

NextLoop ==
    \/ TrackIndex
    \/ Clear
    \/ IntoRecipe

SpecLoop == Init /\ [][NextLoop]_vars

(* Claims about the tracked path, checked under SpecLoop *)

TrackedOnto == crafting_io.op = "track_index" /\ crafting_io.before.start # None

\* The cells the stored directions lead through from `cell`, as long as
\* they are marked, lead inside the grid and were not visited before.
RECURSIVE Followed(_, _, _)
Followed(self, cell, visited) ==
    IF self.points[cell] = None \/ cell \in visited THEN <<cell>>
    ELSE IF apply_offset(Unwrap(self.points[cell]), cell) = None THEN <<cell>>
    ELSE <<cell>> \o Followed(self, Unwrap(apply_offset(Unwrap(self.points[cell]), cell)),
                              visited \cup {cell})

PathFromStart(self) == Followed(self, Unwrap(self.start), {})

\* The marked cells are one self-avoiding path from start to end.
OnePath(self) ==
    IF self.start = None \/ self.end = None
    THEN self.start = None /\ self.end = None /\ Marked(self) = {}
    ELSE LET path == PathFromStart(self)
         IN /\ path[Len(path)] = Unwrap(self.end)
            /\ Marked(self) = {path[n] : n \in 1..(Len(path) - 1)}
            /\ Cardinality(Marked(self)) = Len(path) - 1
            /\ \A n \in 1..(Len(path) - 1) :
                  /\ path[n] \in Cells /\ path[n + 1] \in Cells
                  /\ Abs(path[n][1] - path[n + 1][1]) + Abs(path[n][2] - path[n + 1][2]) = 1

\* The cell tracked just before the end: the marked one whose direction
\* leads to the end.
PreviousCell(self, index) ==
    /\ index \in Cells
    /\ self.points[index] # None
    /\ apply_offset(Unwrap(self.points[index]), index) = self.end

\* C27: after any sequence of track_index calls from a cleared grid the
\* marked cells form one self-avoiding path from the start cell to the end
\* cell, every step between 4-neighbours inside the grid; stepping back onto
\* the previous cell unmarks it and moves end back; an index outside the
\* grid or on any other marked cell leaves the state unchanged.
C27_OneSelfAvoidingPath ==
    /\ OnePath(crafting)
    /\ TrackedOnto
       => LET before == crafting_io.before
              index == crafting_io.index
          IN /\ index \notin Cells => crafting = before
             /\ PreviousCell(before, index)
                => crafting = [before EXCEPT !.points[index] = None, !.end = Some(index)]
             /\ (index \in Marked(before) /\ ~PreviousCell(before, index))
                => crafting = before

\* A call has stepped back onto the previous cell of a path of three marked
\* cells.
C27_Witness ==
    /\ TrackedOnto
    /\ Cardinality(Marked(crafting_io.before)) = 3
    /\ PreviousCell(crafting_io.before, crafting_io.index)
    /\ Cardinality(Marked(crafting)) = 2

\* A call on an index outside the grid, and one on a marked cell that is not
\* the previous one, have been made on a path with marked cells.
TrackedOutside ==
    TrackedOnto /\ crafting_io.index \notin Cells /\ Marked(crafting_io.before) # {}

TrackedOntoPath ==
    /\ TrackedOnto
    /\ crafting_io.index \in Marked(crafting_io.before)
    /\ ~PreviousCell(crafting_io.before, crafting_io.index)

\* The call stepped onto the start cell from a neighbour of it that is not
\* the cell the first step went to.
SteppedOntoStart ==
    /\ TrackedOnto
    /\ crafting_io.before.recipe = None
    /\ crafting_io.before.end # crafting_io.before.start
    /\ Some(crafting_io.index) = crafting_io.before.start
    /\ \E n \in DOMAIN ALL :
          apply_offset(ALL[n], Unwrap(crafting_io.before.end)) = Some(crafting_io.index)
    /\ ~PreviousCell(crafting_io.before, crafting_io.index)

\* C28: a track_index call that steps back onto the start cell from a
\* neighbouring cell, other than by undoing the first step, closes the loop:
\* end equals start and the recipe is set; with a recipe set every later
\* track_index call leaves the state unchanged.
C28_LoopCloses ==
    /\ SteppedOntoStart => (crafting.end = crafting.start /\ crafting.recipe # None)
    /\ (crafting_io.op = "track_index" /\ crafting_io.before.recipe # None)
       => crafting = crafting_io.before

\* No track_index call sets the recipe.
RecipeNeverSet == crafting.recipe = None

\* The contents of the bounding box of the marked cells, its minimum corner
\* at index (0, 0).
BoundingBoxContents(self) ==
    LET marked == Marked(self)
        min_x == Smallest({cell[1] : cell \in marked})
        min_y == Smallest({cell[2] : cell \in marked})
        max_x == Largest({cell[1] : cell \in marked})
        max_y == Largest({cell[2] : cell \in marked})
    IN Array2(<<max_x - min_x + 1, max_y - min_y + 1>>,
              [index \in ArrayIndices(<<max_x - min_x + 1, max_y - min_y + 1>>) |->
                  self.points[<<min_x + index[1], min_y + index[2]>>]])

\* The same marks moved by an offset that keeps them on the grid.
Offsets == ((1 - WIDTH)..(WIDTH - 1)) \X ((1 - HEIGHT)..(HEIGHT - 1))

StaysOnGrid(self, offset) ==
    \A cell \in Marked(self) : <<cell[1] + offset[1], cell[2] + offset[2]>> \in Cells

Translated(self, offset) ==
    [self EXCEPT !.points = [cell \in Cells |->
                                IF <<cell[1] - offset[1], cell[2] - offset[2]>> \in Cells
                                THEN self.points[<<cell[1] - offset[1],
                                                   cell[2] - offset[2]>>]
                                ELSE None]]

\* C30: Recipe::from(&LoopCrafting) yields the contents of the bounding box
\* of the marked cells with the box's minimum corner at index (0, 0),
\* wherever the marked cells are on the grid, without an access out of
\* bounds; one shape at two positions yields the same recipe.
C30_RecipeIsBoundingBox ==
    (crafting_io.op = "from" /\ Marked(crafting_io.before) # {})
    => /\ ~crafting_io.result.panic
       /\ crafting_io.result.recipe = Some(BoundingBoxContents(crafting_io.before))
       /\ \A offset \in Offsets :
             StaysOnGrid(crafting_io.before, offset)
             => recipe_from(Translated(crafting_io.before, offset)) = crafting_io.result

\* The conversion of marked cells whose bounding box has its minimum corner
\* at (0, 0) yields the contents of the box.
RecipeAtOriginIsBoundingBox ==
    (/\ crafting_io.op = "from"
     /\ Marked(crafting_io.before) # {}
     /\ \E cell \in Marked(crafting_io.before) : cell[1] = 0
     /\ \E cell \in Marked(crafting_io.before) : cell[2] = 0)
    => /\ ~crafting_io.result.panic
       /\ crafting_io.result.recipe = Some(BoundingBoxContents(crafting_io.before))

-----------------------------------------------------------------------------
(* Recipe equality (loop_crafting.rs, utils.rs), SpecRecipe *)

Rotation(panic, array) == [panic |-> panic, array |-> array]

\* impl RotateCounterClockwise for Array2<T>, utils.rs 159-167: `height` is
\* the first and `width` the second component of the shape, the result has
\* the shape [width, height], and its element (x, y) is read from
\* self[[width - y - 1, x]].
rotate_counter_clockwise(self) ==
    LET height == self.dim[1]
        width == self.dim[2]
    IN IF \E index \in ArrayIndices(<<width, height>>) :
             <<width - index[2] - 1, index[1]>> \notin ArrayIndices(self.dim)
       THEN Rotation(TRUE, self)
       ELSE Rotation(FALSE,
                     Array2(<<width, height>>,
                            [index \in ArrayIndices(<<width, height>>) |->
                                rotate_option(self.at[<<width - index[2] - 1, index[1]>>])]))

\* Recipe::eq, lines 203-211: up to `turns` more rotations of other_contents
RECURSIVE eq_rotated(_, _, _)
eq_rotated(contents, other_contents, turns) ==
    IF turns = 0 THEN "false"
    ELSE IF rotate_counter_clockwise(other_contents).panic THEN "panic"
    ELSE IF contents = rotate_counter_clockwise(other_contents).array THEN "true"
    ELSE eq_rotated(contents, rotate_counter_clockwise(other_contents).array, turns - 1)

\* impl PartialEq for Recipe
recipe_eq(self, other) == IF self = other THEN "true" ELSE eq_rotated(self, other, 3)

\* The quarter turn of a rectangular array: the element (x, y) of the
\* result is the element (rows - y - 1, x) of the array, turned.
QuarterTurn(array) ==
    Array2(<<array.dim[2], array.dim[1]>>,
           [index \in ArrayIndices(<<array.dim[2], array.dim[1]>>) |->
               rotate_option(array.at[<<array.dim[1] - index[2] - 1, index[1]>>])])

QuarterTurns(array) ==
    {QuarterTurn(array), QuarterTurn(QuarterTurn(array)),
     QuarterTurn(QuarterTurn(QuarterTurn(array)))}

\* Longest side of the recipes compared.
MaxSide == 2

RecipeCells == {None, Some("Right"), Some("Up")}

RecipeInputs ==
    UNION {{Array2(dim, at) : at \in [ArrayIndices(dim) -> RecipeCells]} :
           dim \in (1..MaxSide) \X (1..MaxSide)}

InitRecipe ==
    /\ soft_bodies = <<>>
    /\ keys = <<>>
    /\ constraints = <<>>
    /\ next_body_key = 1
    /\ next_constraint_key = 1
    /\ call = NoCall
    /\ snap = Snapshot(<<>>, <<>>)
    /\ pre_connect = NoPreConnect
    /\ applied = 0
    /\ spring_io = Idle
    /\ builder = Idle
    /\ tick = NoTick
    /\ fill = Idle
    /\ crafting = Cleared
    /\ \E self \in RecipeInputs :
          \E other \in RecipeInputs \cup QuarterTurns(self) :
             crafting_io = CraftingCall("none", <<0, 0>>, <<self, other>>, "Some")

RecipeEq ==
    /\ crafting_io.op = "none"
    /\ crafting_io' = CraftingCall("eq", <<0, 0>>, crafting_io.before,
                                   recipe_eq(crafting_io.before[1], crafting_io.before[2]))
    /\ UNCHANGED <<crafting, applied>>
    /\ Simulated

RotateCounterClockwise ==
    /\ crafting_io.op = "none"
    /\ crafting_io' = CraftingCall("rotate", <<0, 0>>, crafting_io.before,
                                   rotate_counter_clockwise(crafting_io.before[2]))
    /\ UNCHANGED <<crafting, applied>>
    /\ Simulated

NextRecipe ==
    \/ RecipeEq
    \/ RotateCounterClockwise

SpecRecipe == InitRecipe /\ [][NextRecipe]_vars

\* C29: comparing two rectangular recipes, square or not, never panics; a
\* recipe compares equal to each of its three quarter turns; the comparison
\* gives the same answer with its operands exchanged.
C29_EqualityRotationInvariant ==
    crafting_io.op = "eq"
    => /\ crafting_io.result # "panic"
       /\ crafting_io.before[2] \in QuarterTurns(crafting_io.before[1])
          => crafting_io.result = "true"
       /\ crafting_io.result = recipe_eq(crafting_io.before[2], crafting_io.before[1])

IsSquare(array) == array.dim[1] = array.dim[2]

\* On square recipes the comparison does what C29 says of all recipes.
SquareEqualityRotationInvariant ==
    (/\ crafting_io.op = "eq"
     /\ IsSquare(crafting_io.before[1])
     /\ IsSquare(crafting_io.before[2]))
    => /\ crafting_io.result # "panic"
       /\ crafting_io.before[2] \in QuarterTurns(crafting_io.before[1])
          => crafting_io.result = "true"
       /\ crafting_io.result = recipe_eq(crafting_io.before[2], crafting_io.before[1])

\* On a square array the rotation of utils.rs is the quarter turn.
SquareRotationIsQuarterTurn ==
    (crafting_io.op = "rotate" /\ IsSquare(crafting_io.before[2]))
    => crafting_io.result = Rotation(FALSE, QuarterTurn(crafting_io.before[2]))

\* The rotation of an array that is not square reads out of bounds.
OblongRotationPanics ==
    (crafting_io.op = "rotate" /\ ~IsSquare(crafting_io.before[2]))
    => crafting_io.result.panic

====
